---- MODULE Spec2Model ----
(***************************************************************************)
(* Solana-Pastel oracle program: the consensus and contributor-scoring     *)
(* engine (contributor registry, report store, submission tracker,         *)
(* consensus aggregator, consensus engine, scoring engine, cleanup).       *)
(*                                                                         *)
(* The repository's src/ holds the program's narrative (README,            *)
(* src/unnamed/part_001) and its two test suites; the Rust program itself  *)
(* is not part of src/.  Every operation is modelled from the README step  *)
(* that describes it and from the computations the test suites carry out;  *)
(* what neither states (the scoring formulas, the ban thresholds, the      *)
(* retention periods, the accuracy predicate, the submission ceiling) is   *)
(* modelled from the program's specification document.                     *)
(***************************************************************************)
EXTENDS Integers, Sequences, FiniteSets, TLC

(***************************************************************************)
(* Bounds of the model.                                                    *)
(***************************************************************************)
\* contributor addresses are 1..NumContributors
NumContributors == 2
\* the clock runs over 0..MaxTime
MaxTime == 1
\* The quorum.  The program's value is 8 (tests, line 29); the model checks
\* the engine with a scaled-down quorum so that several finalizations of
\* several txids fit in the explored state space.
Quorum == 2
\* Scores are fixed-point numbers.  The program scales by 1e9 (tests, lines
\* 32-33); the model scales by ScoreScale so that products stay inside TLC's
\* 32-bit integers.
ScoreScale == 10
\* the registration fees that the fee-receiving account holds at the start
FundedRegistrations == 2
\* a contributor's reports are scored up to MaxReports times
MaxReports == 20
\* a contributor is paid up to MaxRewards rewards
MaxRewards == 2
\* the monitoring list holds up to MaxMonitored txids
MaxMonitored == 3
MaxReallocations == 2

(***************************************************************************)
(* Program constants.                                                      *)
(***************************************************************************)
MIN_REPORTS_FOR_REWARD == 10
INITIAL_SCORE == 1 * ScoreScale
MAX_SCORE == 100 * ScoreScale
MIN_COMPLIANCE_SCORE_FOR_REWARD == 65 * ScoreScale
MIN_RELIABILITY_SCORE_FOR_REWARD == 80 * ScoreScale
\* retention windows and ban duration, in clock ticks
DATA_RETENTION_PERIOD == 1
SUBMISSION_COUNT_RETENTION_PERIOD == 1
TEMPORARY_BAN_DURATION == 1
\* ban thresholds, in consensus failures
TEMPORARY_BAN_THRESHOLD == 1
PERMANENT_BAN_THRESHOLD == 2
PERMANENT_BAN_SENTINEL == 1000000
\* scoring parameters
BASE_SCORE_INCREMENT == 2 * ScoreScale
INACCURACY_PENALTY == 5 * ScoreScale
STREAK_BONUS_STEP == ScoreScale \div 2
MAX_STREAK_BONUS == 3
DECAY_PERCENT_PER_TICK == 10
RECENT_ACTIVITY_WINDOW == 1
\* length of the file-hash prefix
HASH_PREFIX_LENGTH == 6
\* lamports
LAMPORTS_PER_SOL == 1000000000
REGISTRATION_ENTRANCE_FEE_IN_LAMPORTS == LAMPORTS_PER_SOL \div 10
\* the share of a registration fee that goes to the reward pool, in percent
REWARD_POOL_SHARE_PERCENT == 10
COST_IN_LAMPORTS_OF_ADDING_PASTEL_TXID_FOR_MONITORING == LAMPORTS_PER_SOL \div 10000
BASE_REWARD_AMOUNT_IN_LAMPORTS == 100000
MAX_TXID_LENGTH == 64

\* the data accounts are created with 10,240 bytes and grow by 10,240 bytes
\* per reallocation
INITIAL_ACCOUNT_SIZE == 10240
REALLOCATION_STEP == 10240

(***************************************************************************)
(* Value domains.                                                          *)
(***************************************************************************)
Addresses == 1..NumContributors

\* TxidStatus, by enumeration value
Invalid == 1
PendingMining == 2
MinedPendingActivation == 3
MinedActivated == 4
TxidStatusValues == {Invalid, PendingMining, MinedPendingActivation, MinedActivated}

PastelTicketTypes == {"Sense", "Cascade", "Nft", "InferenceApi"}

\* A txid and a hash prefix are strings, modelled as sequences of characters.
HexChars ==
  {"0", "1", "2", "3", "4", "5", "6", "7", "8", "9", "a", "b", "c", "d", "e", "f"}

\* the contributors that register in the reward runs
RewardedAddresses == {1}

TxidX == <<"9", "9">>
TxidY == <<"a", "1">>
Txids == {TxidX, TxidY}

HashA == <<"a", "b", "c", "1", "2", "3">>
HashB == <<"d", "e", "f", "4", "5", "6">>

\* The reports the environment submits under Spec: well-formed reports for
\* two txids, right or wrong in their status.
TxidInputs == Txids
StatusInputs == {Invalid, MinedActivated}
TicketInputs == {"Nft"}
HashInputs == {HashA}

\* The reports the environment submits under SpecReports: reports for one
\* txid, with two hash prefixes, and malformed reports.
ReportTxidInputs == {TxidX, <<>>}
ReportTicketInputs == {"Nft", "Unknown"}
ReportHashInputs ==
  {HashA, HashB, <<>>, <<"a", "b", "c">>, <<"z", "z", "z", "z", "z", "z">>}

\* The reports the environment submits under SpecCommon: well-formed reports
\* for two txids under two ticket types.
CommonTicketInputs == {"Nft", "Sense"}

VARIABLES
  now,               \* Clock::get()?.unix_timestamp
  contributors,      \* ContributorDataAccount.contributors
  commonReports,     \* TempTxStatusReportAccount.common_reports
  tempReports,       \* TempTxStatusReportAccount.reports
  submissionCounts,  \* TxidSubmissionCountsAccount.submission_counts
  consensusData,     \* AggregatedConsensusDataAccount.consensus_data
  result,            \* what the last instruction returned
  finalizations,     \* history: how many times calculate_consensus ran per txid
  accepted,          \* history: how many reports were accepted per txid
  castCompliance,    \* history: per txid, the compliance scores cast into its record
  castWeight,        \* history: per txid, the weights cast into its record
  permanentlyBanned, \* history: the addresses evicted for a permanent ban
  scoringSkipped,    \* history: a finalization skipped a report whose contributor was gone
  feeReceivingBalance,         \* lamports of fee_receiving_contract_account
  rewardPoolBalance,           \* lamports of reward_pool_account
  contributorBalance,          \* lamports of each contributor's account
  oracleContractStateBalance,  \* lamports of oracle_contract_state
  adminBalance,                \* lamports withdrawn to the admin account
  monitoredTxids,    \* OracleContractState.monitored_txids
  pendingPayments,   \* the PendingPaymentAccount of each txid
  isInitialized,         \* OracleContractState.is_initialized
  pdasInitialized,       \* the data PDAs have been created
  adminPubkey,           \* OracleContractState.admin_pubkey
  bridgeContractPubkey,  \* OracleContractState.bridge_contract_pubkey
  accountSize,           \* bytes allocated to each data account
  minNumberOfOracles     \* the MIN_NUMBER_OF_ORACLES the program is built with

\* the accounts of the report pipeline
reportVars ==
  <<contributors, commonReports, tempReports, submissionCounts, consensusData>>

historyVars ==
  <<finalizations, accepted, castCompliance, castWeight, permanentlyBanned,
    scoringSkipped>>

\* the lamport balances
balanceVars ==
  <<feeReceivingBalance, rewardPoolBalance, contributorBalance,
    oracleContractStateBalance, adminBalance>>

\* the monitoring list and the pending payments
paymentVars == <<monitoredTxids, pendingPayments>>

\* the fields of the oracle state that the admin instructions write
oracleVars ==
  <<isInitialized, pdasInitialized, adminPubkey, bridgeContractPubkey, accountSize,
    minNumberOfOracles>>

vars ==
  <<now, result, reportVars, historyVars, balanceVars, paymentVars, oracleVars>>

\* A build constant, fixed by the initial state of each specification: the
\* reports a txid needs before its consensus is calculated.
MIN_NUMBER_OF_ORACLES == minNumberOfOracles

(***************************************************************************)
(* Sequence helpers.                                                       *)
(***************************************************************************)
Range(s) == {s[i] : i \in DOMAIN s}

\* retain(|x| P(x)) of a Rust Vec
Retain(s, P(_)) == SelectSeq(s, P)

\* index of the first element satisfying P, 0 when there is none
FirstIndex(s, P(_)) ==
  IF \E i \in DOMAIN s : P(s[i])
    THEN CHOOSE i \in DOMAIN s : P(s[i]) /\ \A j \in 1..(i - 1) : ~P(s[j])
    ELSE 0

Min(a, b) == IF a < b THEN a ELSE b
Max(a, b) == IF a > b THEN a ELSE b

(***************************************************************************)
(* Contributor Registry.                                                   *)
(***************************************************************************)
\* the Contributor a registration creates
NewContributor(address, t) ==
  [ reward_address |-> address,
    compliance_score |-> INITIAL_SCORE,
    last_active_timestamp |-> t,
    total_reports_submitted |-> 0,
    accurate_reports_count |-> 0,
    current_streak |-> 0,
    reliability_score |-> INITIAL_SCORE,
    consensus_failures |-> 0,
    ban_expiry |-> 0,
    is_eligible_for_rewards |-> FALSE,
    is_recently_active |-> FALSE,
    is_reliable |-> FALSE ]

IsRegistered(cs, address) == \E i \in DOMAIN cs : cs[i].reward_address = address

\* contributors.iter().find(|c| c.reward_address == address); 0 when absent
FindContributor(cs, address) == FirstIndex(cs, LAMBDA c : c.reward_address = address)

\* variant: the ban still holds at the instant it expires
calculate_is_banned_inclusive(c, t) ==
  \/ c.ban_expiry = PERMANENT_BAN_SENTINEL
  \/ c.ban_expiry >= t

\* Contributor::calculate_is_banned
calculate_is_banned(c, t) ==
  \/ c.ban_expiry = PERMANENT_BAN_SENTINEL
  \/ c.ban_expiry > t

\* variant: every contributor with a ban on record is removed
apply_permanent_bans_any_ban(cs) == Retain(cs, LAMBDA c : c.ban_expiry = 0)

\* apply_permanent_bans: the contributors that stay in the registry
apply_permanent_bans(cs) == Retain(cs, LAMBDA c : c.ban_expiry # PERMANENT_BAN_SENTINEL)

(***************************************************************************)
(* Scoring Engine.                                                         *)
(***************************************************************************)
\* variant: the score is bounded from above only
ClampScore_upper_only(x) == Min(x, MAX_SCORE)

\* the score brought back into [0, MAX_SCORE]
ClampScore(x) == Max(0, Min(x, MAX_SCORE))

\* time-based decay of the compliance score over the idle time
apply_decay(score, elapsed) ==
  ClampScore(score - (score * DECAY_PERCENT_PER_TICK * elapsed) \div 100)

\* increment for an accurate report: base increment, streak bonus (capped),
\* discounted by the time since the contributor was last active
accurate_increment(streak, elapsed) ==
  (BASE_SCORE_INCREMENT + STREAK_BONUS_STEP * Min(streak, MAX_STREAK_BONUS))
    \div (1 + elapsed)

\* variant: the ratio is taken over one report more than were submitted
calculate_reliability_extra_report(accurate, total) ==
  IF total = 0 THEN 0 ELSE ClampScore((accurate * MAX_SCORE) \div (total + 1))

\* reliability = accurate / total on the fixed-point scale
calculate_reliability(accurate, total) ==
  IF total = 0 THEN 0 ELSE ClampScore((accurate * MAX_SCORE) \div total)

\* blending of the reliability into the compliance score
scale_by_reliability(score, reliability) ==
  ClampScore((score * (MAX_SCORE + reliability)) \div (2 * MAX_SCORE))

\* the reward-eligibility criteria
calculate_is_eligible_for_rewards(c) ==
  /\ c.total_reports_submitted >= MIN_REPORTS_FOR_REWARD
  /\ c.reliability_score >= MIN_RELIABILITY_SCORE_FOR_REWARD
  /\ c.compliance_score >= MIN_COMPLIANCE_SCORE_FOR_REWARD

\* variant: the ban is evaluated after every report, accurate or not
apply_bans_every_report(c, t, is_accurate) ==
  IF c.consensus_failures >= PERMANENT_BAN_THRESHOLD
    THEN [c EXCEPT !.ban_expiry = PERMANENT_BAN_SENTINEL]
  ELSE [c EXCEPT !.ban_expiry = t + TEMPORARY_BAN_DURATION]

\* apply_bans: ban evaluation after an inaccurate report
apply_bans(c, t, is_accurate) ==
  IF is_accurate THEN c
  ELSE IF c.consensus_failures >= PERMANENT_BAN_THRESHOLD
    THEN [c EXCEPT !.ban_expiry = PERMANENT_BAN_SENTINEL]
  ELSE IF c.consensus_failures >= TEMPORARY_BAN_THRESHOLD
    THEN [c EXCEPT !.ban_expiry = t + TEMPORARY_BAN_DURATION]
  ELSE c

\* variant: an inaccurate report is not counted as a submitted report
update_scores_accurate_only(c, t, is_accurate) ==
  LET elapsed == Max(t - c.last_active_timestamp, 0)
      decayed == apply_decay(c.compliance_score, elapsed)
      total == c.total_reports_submitted + (IF is_accurate THEN 1 ELSE 0)
      accurate == c.accurate_reports_count + (IF is_accurate THEN 1 ELSE 0)
      streak == IF is_accurate THEN c.current_streak + 1 ELSE 0
      failures == c.consensus_failures + (IF is_accurate THEN 0 ELSE 1)
      moved == IF is_accurate
                 THEN ClampScore(decayed + accurate_increment(streak, elapsed))
                 ELSE ClampScore(decayed - INACCURACY_PENALTY)
      reliability == calculate_reliability(accurate, total)
  IN [c EXCEPT
        !.total_reports_submitted = total,
        !.accurate_reports_count = accurate,
        !.current_streak = streak,
        !.consensus_failures = failures,
        !.compliance_score = scale_by_reliability(moved, reliability),
        !.reliability_score = reliability,
        !.last_active_timestamp = t,
        !.is_recently_active = elapsed < RECENT_ACTIVITY_WINDOW]

\* update_scores: counters, streak, compliance and reliability
update_scores(c, t, is_accurate) ==
  LET elapsed == Max(t - c.last_active_timestamp, 0)
      decayed == apply_decay(c.compliance_score, elapsed)
      total == c.total_reports_submitted + 1
      accurate == c.accurate_reports_count + (IF is_accurate THEN 1 ELSE 0)
      streak == IF is_accurate THEN c.current_streak + 1 ELSE 0
      failures == c.consensus_failures + (IF is_accurate THEN 0 ELSE 1)
      moved == IF is_accurate
                 THEN ClampScore(decayed + accurate_increment(streak, elapsed))
                 ELSE ClampScore(decayed - INACCURACY_PENALTY)
      reliability == calculate_reliability(accurate, total)
  IN [c EXCEPT
        !.total_reports_submitted = total,
        !.accurate_reports_count = accurate,
        !.current_streak = streak,
        !.consensus_failures = failures,
        !.compliance_score = scale_by_reliability(moved, reliability),
        !.reliability_score = reliability,
        !.last_active_timestamp = t,
        !.is_recently_active = elapsed < RECENT_ACTIVITY_WINDOW]

\* the derived flags, recomputed from the stored scores and counters
update_statuses(c) ==
  [c EXCEPT
     !.is_reliable = c.reliability_score >= MIN_RELIABILITY_SCORE_FOR_REWARD,
     !.is_eligible_for_rewards = calculate_is_eligible_for_rewards(c)]

\* variant: the derived flags are recomputed before the scores are updated
update_contributor_statuses_first(c, t, is_accurate) ==
  apply_bans(update_scores(update_statuses(c), t, is_accurate), t, is_accurate)

\* variant: an inaccurate report does not reset the streak
update_contributor_streak_kept(c, t, is_accurate) ==
  apply_bans(update_statuses([update_scores(c, t, is_accurate) EXCEPT
                                !.current_streak = c.current_streak + 1]),
             t, is_accurate)

\* update_contributor(contributor, current_timestamp, is_accurate)
update_contributor(c, t, is_accurate) ==
  apply_bans(update_statuses(update_scores(c, t, is_accurate)), t, is_accurate)

(***************************************************************************)
(* Report Store and Submission Tracker.                                    *)
(***************************************************************************)
\* variant: the file hash is validated before the ticket type
validate_data_contributor_report_hash_first(txid, txid_status, pastel_ticket_type, hash) ==
  IF txid = <<>> THEN "InvalidTxid"
  ELSE IF txid_status \notin TxidStatusValues THEN "InvalidTxidStatus"
  ELSE IF hash = <<>> THEN "MissingFileHash"
  ELSE IF Len(hash) # HASH_PREFIX_LENGTH \/ \E i \in DOMAIN hash : hash[i] \notin HexChars
    THEN "InvalidFileHashLength"
  ELSE IF pastel_ticket_type \notin PastelTicketTypes THEN "InvalidTicketType"
  ELSE "Ok"

\* validate_data_contributor_report: "Ok" or the error it returns
validate_data_contributor_report(txid, txid_status, pastel_ticket_type, hash) ==
  IF txid = <<>> THEN "InvalidTxid"
  ELSE IF txid_status \notin TxidStatusValues THEN "InvalidTxidStatus"
  ELSE IF pastel_ticket_type \notin PastelTicketTypes THEN "InvalidTicketType"
  ELSE IF hash = <<>> THEN "MissingFileHash"
  ELSE IF Len(hash) # HASH_PREFIX_LENGTH \/ \E i \in DOMAIN hash : hash[i] \notin HexChars
    THEN "InvalidFileHashLength"
  ELSE "Ok"

\* the submission count stored for txid, 0 when there is none
SubmissionCountOf(counts, txid) ==
  LET i == FirstIndex(counts, LAMBDA e : e.txid = txid)
  IN IF i = 0 THEN 0 ELSE counts[i].count

\* the submission ceiling: enough reports have already been submitted
EnoughReportsSubmitted(counts, txid) ==
  SubmissionCountOf(counts, txid) >= MIN_NUMBER_OF_ORACLES

\* variant: the common data is appended without looking for an existing entry
find_or_add_common_report_data_always_add(common, txid, pastel_ticket_type) ==
  Append(common, [txid |-> txid, pastel_ticket_type |-> pastel_ticket_type])

\* find or add the CommonReportData of (txid, ticket type): the new list
find_or_add_common_report_data(common, txid, pastel_ticket_type) ==
  IF \E i \in DOMAIN common :
       common[i].txid = txid /\ common[i].pastel_ticket_type = pastel_ticket_type
    THEN common
    ELSE Append(common, [txid |-> txid, pastel_ticket_type |-> pastel_ticket_type])

\* the index a report stores as its common_data_ref
CommonDataRef(common, txid, pastel_ticket_type) ==
  FirstIndex(common,
    LAMBDA e : e.txid = txid /\ e.pastel_ticket_type = pastel_ticket_type)

\* the txid a stored report's common_data_ref resolves to
ReportTxid(common, report) == common[report.common_data_ref].txid

\* variant: a new entry is appended without looking for the txid's entry
update_submission_count_always_add(counts, txid, t) ==
  Append(counts, [txid |-> txid, count |-> 1, last_updated |-> t])

\* update_submission_count
update_submission_count(counts, txid, t) ==
  LET i == FirstIndex(counts, LAMBDA e : e.txid = txid)
  IN IF i = 0
       THEN Append(counts, [txid |-> txid, count |-> 1, last_updated |-> t])
       ELSE [counts EXCEPT ![i] = [@ EXCEPT !.count = @ + 1, !.last_updated = t]]

(***************************************************************************)
(* Consensus Aggregator.                                                   *)
(***************************************************************************)
\* the weight of a contributor's report
ReportWeight(c) == c.compliance_score + c.reliability_score

HasConsensusData(data, txid) == \E i \in DOMAIN data : data[i].txid = txid

\* get_aggregated_data
get_aggregated_data(data, txid) ==
  data[FirstIndex(data, LAMBDA e : e.txid = txid)]

\* variant: the hash is appended without scanning the list for it
add_hash_weight_always_add(hash_weights, hash, weight) ==
  Append(hash_weights, [hash |-> hash, weight |-> weight])

\* the hash tally after a vote of `weight` for `hash`
add_hash_weight(hash_weights, hash, weight) ==
  LET i == FirstIndex(hash_weights, LAMBDA e : e.hash = hash)
  IN IF i = 0
       THEN Append(hash_weights, [hash |-> hash, weight |-> weight])
       ELSE [hash_weights EXCEPT ![i] = [@ EXCEPT !.weight = @ + weight]]

\* variant: a vote overwrites the status weight instead of adding to it
aggregate_consensus_data_overwrite(data, txid, txid_status, hash, weight, t) ==
  LET i == FirstIndex(data, LAMBDA e : e.txid = txid)
  IN IF i = 0
       THEN Append(data,
              [ txid |-> txid,
                status_weights |-> [s \in TxidStatusValues |->
                                      IF s = txid_status THEN weight ELSE 0],
                hash_weights |-> <<[hash |-> hash, weight |-> weight]>>,
                last_updated |-> t ])
       ELSE [data EXCEPT ![i] =
              [@ EXCEPT !.status_weights[txid_status] = weight,
                        !.hash_weights = add_hash_weight(@, hash, weight),
                        !.last_updated = t]]

\* aggregate_consensus_data
aggregate_consensus_data(data, txid, txid_status, hash, weight, t) ==
  LET i == FirstIndex(data, LAMBDA e : e.txid = txid)
  IN IF i = 0
       THEN Append(data,
              [ txid |-> txid,
                status_weights |-> [s \in TxidStatusValues |->
                                      IF s = txid_status THEN weight ELSE 0],
                hash_weights |-> <<[hash |-> hash, weight |-> weight]>>,
                last_updated |-> t ])
       ELSE [data EXCEPT ![i] =
              [@ EXCEPT !.status_weights[txid_status] = @ + weight,
                        !.hash_weights = add_hash_weight(@, hash, weight),
                        !.last_updated = t]]

\* variant: the quorum compared strictly
should_calculate_consensus_strict(counts, txid) ==
  SubmissionCountOf(counts, txid) > MIN_NUMBER_OF_ORACLES

\* should_calculate_consensus
should_calculate_consensus(counts, txid) ==
  SubmissionCountOf(counts, txid) >= MIN_NUMBER_OF_ORACLES

(***************************************************************************)
(* Consensus Engine.                                                       *)
(***************************************************************************)
\* variant: the last status, in enumeration order, of the greatest weight
consensus_status_last(status_weights) ==
  CHOOSE s \in TxidStatusValues :
    /\ \A r \in TxidStatusValues : status_weights[r] <= status_weights[s]
    /\ \A r \in TxidStatusValues : r > s => status_weights[r] < status_weights[s]

\* the consensus status: the first status, in enumeration order, whose
\* weight equals the greatest weight
consensus_status(status_weights) ==
  LET maxWeight == CHOOSE w \in Range(status_weights) :
                     \A s \in TxidStatusValues : status_weights[s] <= w
  IN CHOOSE s \in TxidStatusValues :
       /\ status_weights[s] = maxWeight
       /\ \A r \in TxidStatusValues : r < s => status_weights[r] # maxWeight

\* the consensus hash: hash_weights.reduce((max, h) => max.weight > h.weight
\* ? max : h, {hash: "", weight: 0}).hash
RECURSIVE ReduceMaxHash(_, _)
ReduceMaxHash(max, hash_weights) ==
  IF hash_weights = <<>> THEN max
  ELSE LET h == Head(hash_weights)
       IN ReduceMaxHash(IF max.weight > h.weight THEN max ELSE h, Tail(hash_weights))

consensus_hash(hash_weights) ==
  ReduceMaxHash([hash |-> <<>>, weight |-> 0], hash_weights).hash

\* compute_consensus(aggregated_data)
compute_consensus(aggregated_data) ==
  [ status |-> consensus_status(aggregated_data.status_weights),
    hash |-> consensus_hash(aggregated_data.hash_weights) ]

\* whether a report agrees with the consensus
IsAccurate(report, status, hash) ==
  /\ report.txid_status = status
  /\ report.first_6_characters_hash = hash

\* variant: the scoring loop ends at the first report whose contributor is gone
RECURSIVE ScoreReports_until_missing(_, _, _, _, _, _)
ScoreReports_until_missing(cs, common, reports, txid, consensus, t) ==
  IF reports = <<>> THEN cs
  ELSE LET r == Head(reports)
           i == FindContributor(cs, r.contributor_reward_address)
       IN IF ReportTxid(common, r) # txid
            THEN ScoreReports_until_missing(cs, common, Tail(reports), txid,
                                            consensus, t)
          ELSE IF i = 0 THEN cs
          ELSE ScoreReports_until_missing(
                 [cs EXCEPT ![i] =
                    update_contributor(@, t,
                      IsAccurate(r, consensus.status, consensus.hash))],
                 common, Tail(reports), txid, consensus, t)

\* the scoring loop of calculate_consensus: every report of txid updates its
\* contributor, a report whose contributor is gone is skipped
\* variant: scores the contributor of every stored report, whatever its txid
RECURSIVE ScoreReports_every_txid(_, _, _, _, _, _)
ScoreReports_every_txid(cs, common, reports, txid, consensus, t) ==
  IF reports = <<>> THEN cs
  ELSE LET r == Head(reports)
           i == FindContributor(cs, r.contributor_reward_address)
           scored ==
             IF i # 0
               THEN [cs EXCEPT ![i] =
                       update_contributor(@, t,
                         IsAccurate(r, consensus.status, consensus.hash))]
               ELSE cs
       IN ScoreReports_every_txid(scored, common, Tail(reports), txid, consensus, t)

RECURSIVE ScoreReports(_, _, _, _, _, _)
ScoreReports(cs, common, reports, txid, consensus, t) ==
  IF reports = <<>> THEN cs
  ELSE LET r == Head(reports)
           i == FindContributor(cs, r.contributor_reward_address)
           scored ==
             IF ReportTxid(common, r) = txid /\ i # 0
               THEN [cs EXCEPT ![i] =
                       update_contributor(@, t,
                         IsAccurate(r, consensus.status, consensus.hash))]
               ELSE cs
       IN ScoreReports(scored, common, Tail(reports), txid, consensus, t)

\* a stored report of txid whose contributor is no longer in the registry
HasOrphanReport(cs, common, reports, txid) ==
  \E k \in DOMAIN reports :
    /\ ReportTxid(common, reports[k]) = txid
    /\ ~IsRegistered(cs, reports[k].contributor_reward_address)

(***************************************************************************)
(* Retention and Cleanup.                                                  *)
(***************************************************************************)
\* variant: the temporary reports are kept by age alone
cleanup_temp_reports_by_age(common, reports, txid, t) ==
  Retain(reports, LAMBDA r : t - r.timestamp < DATA_RETENTION_PERIOD)

\* post_consensus_tasks: the temporary reports that are kept
cleanup_temp_reports(common, reports, txid, t) ==
  Retain(reports,
    LAMBDA r : ReportTxid(common, r) # txid /\ t - r.timestamp < DATA_RETENTION_PERIOD)

\* variant: an entry exactly DATA_RETENTION_PERIOD old is still kept
cleanup_consensus_data_inclusive(data, t) ==
  Retain(data, LAMBDA e : t - e.last_updated <= DATA_RETENTION_PERIOD)

\* post_consensus_tasks: the aggregated consensus data that is kept
cleanup_consensus_data(data, t) ==
  Retain(data, LAMBDA e : t - e.last_updated < DATA_RETENTION_PERIOD)

\* variant: the retention test reversed, the aged entries are the ones kept
cleanup_submission_counts_reversed(counts, t) ==
  Retain(counts, LAMBDA e : t - e.last_updated >= SUBMISSION_COUNT_RETENTION_PERIOD)

\* post_consensus_tasks: the submission counts that are kept
cleanup_submission_counts(counts, t) ==
  Retain(counts, LAMBDA e : t - e.last_updated < SUBMISSION_COUNT_RETENTION_PERIOD)

\* the state of the four data accounts
Accounts(cs, common, reports, counts, data) ==
  [ contributors |-> cs, commonReports |-> common, tempReports |-> reports,
    submissionCounts |-> counts, consensusData |-> data ]

\* post_consensus_tasks(txid)
post_consensus_tasks(a, txid, t) ==
  Accounts(
    apply_permanent_bans(a.contributors),
    a.commonReports,
    cleanup_temp_reports(a.commonReports, a.tempReports, txid, t),
    cleanup_submission_counts(a.submissionCounts, t),
    cleanup_consensus_data(a.consensusData, t))

\* variant: the reports are scored and post_consensus_tasks is left out
calculate_consensus_no_cleanup(a, txid, t) ==
  LET consensus == compute_consensus(get_aggregated_data(a.consensusData, txid))
  IN [a EXCEPT !.contributors =
        ScoreReports(a.contributors, a.commonReports, a.tempReports, txid, consensus, t)]

\* calculate_consensus(txid): consensus, scoring of the reports, cleanup
calculate_consensus(a, txid, t) ==
  LET consensus == compute_consensus(get_aggregated_data(a.consensusData, txid))
      scored == ScoreReports(a.contributors, a.commonReports, a.tempReports,
                             txid, consensus, t)
  IN post_consensus_tasks([a EXCEPT !.contributors = scored], txid, t)

\* the report an accepted submission stores
NewTempReport(common, address, txid, txid_status, pastel_ticket_type, hash, t) ==
  [ common_data_ref |-> CommonDataRef(common, txid, pastel_ticket_type),
    contributor_reward_address |-> address,
    txid_status |-> txid_status,
    first_6_characters_hash |-> hash,
    timestamp |-> t ]

\* variant: the ceiling is tested before the contributor is looked up
submission_error_ceiling_first(a, address, txid, txid_status, pastel_ticket_type, hash, t) ==
  LET v == validate_data_contributor_report(txid, txid_status, pastel_ticket_type, hash)
      i == FindContributor(a.contributors, address)
  IN IF v # "Ok" THEN v
     ELSE IF EnoughReportsSubmitted(a.submissionCounts, txid)
       THEN "EnoughReportsSubmittedForTxid"
     ELSE IF i = 0 THEN "ContributorNotRegistered"
     ELSE IF calculate_is_banned(a.contributors[i], t) THEN "ContributorBanned"
     ELSE "Ok"

\* the error a submission is rejected with, "Ok" when it is accepted
submission_error(a, address, txid, txid_status, pastel_ticket_type, hash, t) ==
  LET v == validate_data_contributor_report(txid, txid_status, pastel_ticket_type, hash)
      i == FindContributor(a.contributors, address)
  IN IF v # "Ok" THEN v
     ELSE IF i = 0 THEN "ContributorNotRegistered"
     ELSE IF calculate_is_banned(a.contributors[i], t) THEN "ContributorBanned"
     ELSE IF EnoughReportsSubmitted(a.submissionCounts, txid)
       THEN "EnoughReportsSubmittedForTxid"
     ELSE "Ok"

\* the accounts after an accepted report is stored, counted and aggregated
store_report(a, address, txid, txid_status, pastel_ticket_type, hash, t) ==
  LET common == find_or_add_common_report_data(a.commonReports, txid, pastel_ticket_type)
      c == a.contributors[FindContributor(a.contributors, address)]
  IN Accounts(
       a.contributors,
       common,
       Append(a.tempReports,
         NewTempReport(common, address, txid, txid_status, pastel_ticket_type, hash, t)),
       update_submission_count(a.submissionCounts, txid, t),
       aggregate_consensus_data(a.consensusData, txid, txid_status, hash,
                                ReportWeight(c), t))

\* variant: the common report data is found or added before the contributor
\* is verified
submit_data_report_helper_common_first(a, address, txid, txid_status, pastel_ticket_type, hash, t) ==
  LET err == submission_error(a, address, txid, txid_status, pastel_ticket_type, hash, t)
  IN IF err \in {"ContributorNotRegistered", "ContributorBanned"}
       THEN [a EXCEPT !.commonReports =
               find_or_add_common_report_data(@, txid, pastel_ticket_type)]
     ELSE IF err # "Ok" THEN a
     ELSE LET stored == store_report(a, address, txid, txid_status,
                                     pastel_ticket_type, hash, t)
          IN IF should_calculate_consensus(stored.submissionCounts, txid)
               THEN calculate_consensus(stored, txid, t)
               ELSE stored

\* submit_data_report_helper: the accounts after the instruction
submit_data_report_helper(a, address, txid, txid_status, pastel_ticket_type, hash, t) ==
  IF submission_error(a, address, txid, txid_status, pastel_ticket_type, hash, t) # "Ok"
    THEN a
    ELSE LET stored == store_report(a, address, txid, txid_status,
                                    pastel_ticket_type, hash, t)
         IN IF should_calculate_consensus(stored.submissionCounts, txid)
              THEN calculate_consensus(stored, txid, t)
              ELSE stored

\* variant: the whole registration fee goes to the reward pool
reward_pool_share_whole_fee == REGISTRATION_ENTRANCE_FEE_IN_LAMPORTS

\* the part of a registration fee that moves to the reward pool
reward_pool_share ==
  (REGISTRATION_ENTRANCE_FEE_IN_LAMPORTS * REWARD_POOL_SHARE_PERCENT) \div 100

\* register_new_data_contributor_helper: what the instruction returns
registration_error(cs, fee_balance, address) ==
  IF IsRegistered(cs, address) THEN "ContributorAlreadyRegistered"
  ELSE IF fee_balance < REGISTRATION_ENTRANCE_FEE_IN_LAMPORTS THEN "RegistrationFeeNotPaid"
  ELSE "Ok"

\* variant: the registry is not searched for the address
register_new_data_contributor_helper_no_search(cs, fee_balance, address, t) ==
  IF fee_balance < REGISTRATION_ENTRANCE_FEE_IN_LAMPORTS
    THEN cs
    ELSE Append(cs, NewContributor(address, t))

\* register_new_data_contributor_helper: the registry after the instruction
register_new_data_contributor_helper(cs, fee_balance, address, t) ==
  IF registration_error(cs, fee_balance, address) # "Ok"
    THEN cs
    ELSE Append(cs, NewContributor(address, t))

(***************************************************************************)
(* Rewards.                                                                *)
(***************************************************************************)
\* the contributor record of `address` in the registry cs (which holds it)
ContributorOf(cs, address) == cs[FindContributor(cs, address)]

\* variant: the eligibility criteria are not checked
request_reward_error_no_criteria(cs, pool, address) ==
  IF ~IsRegistered(cs, address) THEN "UnregisteredOracle"
  ELSE IF pool < BASE_REWARD_AMOUNT_IN_LAMPORTS THEN "InsufficientFunds"
  ELSE "Ok"

\* variant: the funds of the reward pool are not checked
request_reward_error_no_funds_check(cs, pool, address) ==
  IF ~IsRegistered(cs, address) THEN "UnregisteredOracle"
  ELSE IF ~calculate_is_eligible_for_rewards(ContributorOf(cs, address))
    THEN "NotEligibleForReward"
  ELSE "Ok"

\* request_reward_helper: what the instruction returns
request_reward_error(cs, pool, address) ==
  IF ~IsRegistered(cs, address) THEN "UnregisteredOracle"
  ELSE IF ~calculate_is_eligible_for_rewards(ContributorOf(cs, address))
    THEN "NotEligibleForReward"
  ELSE IF pool < BASE_REWARD_AMOUNT_IN_LAMPORTS THEN "InsufficientFunds"
  ELSE "Ok"

\* the two balances a reward request works on
RewardAccounts(pool, balances) ==
  [rewardPoolBalance |-> pool, contributorBalance |-> balances]

\* variant: the reward is credited to the contributor and never debited
request_reward_helper_no_debit(cs, pool, balances, address) ==
  IF request_reward_error(cs, pool, address) # "Ok"
    THEN RewardAccounts(pool, balances)
    ELSE RewardAccounts(pool,
           [balances EXCEPT ![address] = @ + BASE_REWARD_AMOUNT_IN_LAMPORTS])

\* request_reward_helper: the balances after the instruction
request_reward_helper(cs, pool, balances, address) ==
  IF request_reward_error(cs, pool, address) # "Ok"
    THEN RewardAccounts(pool, balances)
    ELSE RewardAccounts(pool - BASE_REWARD_AMOUNT_IN_LAMPORTS,
           [balances EXCEPT ![address] = @ + BASE_REWARD_AMOUNT_IN_LAMPORTS])

(***************************************************************************)
(* Monitoring and payments.                                                *)
(***************************************************************************)
\* the keys that sign instructions: the admin and another key
Callers == {"admin", "user"}

\* Pubkey::default(), the bridge contract key before set_bridge_contract
DefaultPubkey == "default"

\* a txid longer than MAX_TXID_LENGTH
LongTxid == [i \in 1..(MAX_TXID_LENGTH + 1) |-> "f"]
MonitoredTxidInputs == Txids \cup {LongTxid}

ExpectedAmountInputs == {COST_IN_LAMPORTS_OF_ADDING_PASTEL_TXID_FOR_MONITORING}
PaymentAmountInputs ==
  {COST_IN_LAMPORTS_OF_ADDING_PASTEL_TXID_FOR_MONITORING,
   COST_IN_LAMPORTS_OF_ADDING_PASTEL_TXID_FOR_MONITORING + 1}

PendingPayment(txid, expected_amount, payment_status) ==
  [txid |-> txid, expected_amount |-> expected_amount, payment_status |-> payment_status]

\* a txid with no pending payment account
NoPendingPayment == PendingPayment(<<>>, 0, "None")

\* variant: the caller is not compared with the bridge contract key
add_txid_for_monitoring_error_any_caller(bridge_contract_pubkey, caller, txid) ==
  IF Len(txid) > MAX_TXID_LENGTH THEN "InvalidTxid" ELSE "Ok"

\* add_txid_for_monitoring_helper: what the instruction returns
add_txid_for_monitoring_error(bridge_contract_pubkey, caller, txid) ==
  IF Len(txid) > MAX_TXID_LENGTH THEN "InvalidTxid"
  ELSE IF caller # bridge_contract_pubkey THEN "NotBridgeContractAddress"
  ELSE "Ok"

\* process_payment_helper: what the instruction returns
process_payment_error(payment, txid, amount) ==
  IF payment.txid # txid THEN "PaymentNotFound"
  ELSE IF payment.expected_amount # amount THEN "InvalidPaymentAmount"
  ELSE "Ok"

\* process_payment_helper: the pending payment after the instruction
process_payment_helper(payment, txid, amount) ==
  IF process_payment_error(payment, txid, amount) = "Ok"
    THEN [payment EXCEPT !.payment_status = "Received"]
    ELSE payment

\* variant: the pending payment is created as already received
monitoring_payment_received(txid) ==
  PendingPayment(txid, COST_IN_LAMPORTS_OF_ADDING_PASTEL_TXID_FOR_MONITORING, "Received")

\* the pending payment add_txid_for_monitoring creates for a txid
monitoring_payment(txid) ==
  PendingPayment(txid, COST_IN_LAMPORTS_OF_ADDING_PASTEL_TXID_FOR_MONITORING, "Pending")

(***************************************************************************)
(* Administration.                                                         *)
(***************************************************************************)
\* the fields of OracleContractState
OracleState(is_initialized, admin_pubkey, bridge_contract_pubkey, monitored_txids) ==
  [ is_initialized |-> is_initialized,
    admin_pubkey |-> admin_pubkey,
    bridge_contract_pubkey |-> bridge_contract_pubkey,
    monitored_txids |-> monitored_txids ]

\* initialize_oracle_state: what the instruction returns
initialize_error(state) ==
  IF state.is_initialized THEN "AccountAlreadyInitialized" ELSE "Ok"

\* variant: the state is initialized again whatever it holds
initialize_oracle_state_again(state, user) ==
  OracleState(TRUE, user, DefaultPubkey, <<>>)

\* initialize_oracle_state: the oracle state after the instruction
initialize_oracle_state(state, user) ==
  IF initialize_error(state) # "Ok" THEN state
  ELSE OracleState(TRUE, user, DefaultPubkey, <<>>)

\* initialize_pdas: what the instruction returns
initialize_pdas_error(pdas_initialized) ==
  IF pdas_initialized THEN "AccountAlreadyInitialized" ELSE "Ok"

\* initialize_pdas: the data accounts after the instruction
initialize_pdas_helper(pdas_initialized, a) ==
  IF initialize_pdas_error(pdas_initialized) # "Ok" THEN a
  ELSE Accounts(<<>>, <<>>, <<>>, <<>>, <<>>)

\* variant: any signer is taken for the admin
admin_error_any_signer(admin_pubkey, signer) == "Ok"

\* the admin check of set_bridge_contract and withdraw_funds
admin_error(admin_pubkey, signer) ==
  IF signer # admin_pubkey THEN "UnauthorizedWithdrawalAccount" ELSE "Ok"

\* set_bridge_contract: the oracle state after the instruction
set_bridge_contract(state, signer, bridge_contract_pubkey) ==
  IF admin_error(state.admin_pubkey, signer) # "Ok" THEN state
  ELSE [state EXCEPT !.bridge_contract_pubkey = bridge_contract_pubkey]

\* a withdrawal that asks for more than an account holds
withdrawal_exceeds_balance(pool, fee_balance, reward_pool_amount, fee_receiving_amount) ==
  reward_pool_amount > pool \/ fee_receiving_amount > fee_balance

\* withdraw_funds: what the instruction returns
withdraw_funds_error(admin_pubkey, signer, pool, fee_balance, reward_pool_amount, fee_receiving_amount) ==
  IF admin_error(admin_pubkey, signer) # "Ok"
    THEN admin_error(admin_pubkey, signer)
  ELSE IF withdrawal_exceeds_balance(pool, fee_balance, reward_pool_amount,
                                     fee_receiving_amount)
    THEN "InsufficientFunds"
  ELSE "Ok"

WithdrawAccounts(pool, fee_balance, admin_balance) ==
  [ rewardPoolBalance |-> pool, feeReceivingBalance |-> fee_balance,
    adminBalance |-> admin_balance ]

\* variant: the fee-receiving account is debited by the reward pool amount
withdraw_funds_helper_one_amount(admin_pubkey, signer, pool, fee_balance, admin_balance, reward_pool_amount, fee_receiving_amount) ==
  IF withdraw_funds_error(admin_pubkey, signer, pool, fee_balance,
                          reward_pool_amount, fee_receiving_amount) # "Ok"
    THEN WithdrawAccounts(pool, fee_balance, admin_balance)
    ELSE WithdrawAccounts(pool - reward_pool_amount,
                          fee_balance - reward_pool_amount,
                          admin_balance + reward_pool_amount + reward_pool_amount)

\* withdraw_funds(reward_pool_amount, fee_receiving_amount): the balances
\* after the instruction
withdraw_funds_helper(admin_pubkey, signer, pool, fee_balance, admin_balance, reward_pool_amount, fee_receiving_amount) ==
  IF withdraw_funds_error(admin_pubkey, signer, pool, fee_balance,
                          reward_pool_amount, fee_receiving_amount) # "Ok"
    THEN WithdrawAccounts(pool, fee_balance, admin_balance)
    ELSE WithdrawAccounts(pool - reward_pool_amount,
                          fee_balance - fee_receiving_amount,
                          admin_balance + reward_pool_amount + fee_receiving_amount)

\* variant: the reallocated accounts come back empty
reallocate_oracle_state_helper_empty(a) ==
  Accounts(<<>>, <<>>, <<>>, <<>>, <<>>)

\* reallocate_oracle_state: the contents of the data accounts after the
\* instruction
reallocate_oracle_state_helper(a) == a

\* reallocate_oracle_state: the size of the data accounts after the instruction
reallocated_size(size) == size + REALLOCATION_STEP

\* the amounts withdraw_funds is asked for
WithdrawAmountInputs ==
  {0, reward_pool_share, REGISTRATION_ENTRANCE_FEE_IN_LAMPORTS}

(***************************************************************************)
(* The state machine.                                                      *)
(***************************************************************************)
CurrentAccounts ==
  Accounts(contributors, commonReports, tempReports, submissionCounts, consensusData)

\* the addresses that apply_permanent_bans took out of the registry
Evicted(before, after) ==
  {address \in Addresses : IsRegistered(before, address) /\ ~IsRegistered(after, address)}

\* the state after initialize, initialize_pdas and set_bridge_contract(admin),
\* the fee-receiving account holding the registration fees paid for `funded`
\* registrations
InitBuilt(funded, min_oracles) ==
  /\ now = 0
  /\ contributors = <<>>
  /\ commonReports = <<>>
  /\ tempReports = <<>>
  /\ submissionCounts = <<>>
  /\ consensusData = <<>>
  /\ result = "Ok"
  /\ finalizations = [t \in Txids |-> 0]
  /\ accepted = [t \in Txids |-> 0]
  /\ castCompliance = [t \in Txids |-> 0]
  /\ castWeight = [t \in Txids |-> 0]
  /\ permanentlyBanned = {}
  /\ scoringSkipped = FALSE
  /\ feeReceivingBalance = funded * REGISTRATION_ENTRANCE_FEE_IN_LAMPORTS
  /\ rewardPoolBalance = 0
  /\ contributorBalance = [address \in Addresses |-> 0]
  /\ oracleContractStateBalance = 0
  /\ adminBalance = 0
  /\ monitoredTxids = <<>>
  /\ pendingPayments = [t \in Txids |-> NoPendingPayment]
  /\ isInitialized = TRUE
  /\ pdasInitialized = TRUE
  /\ adminPubkey = "admin"
  /\ bridgeContractPubkey = "admin"
  /\ accountSize = INITIAL_ACCOUNT_SIZE
  /\ minNumberOfOracles = min_oracles

\* the same state with the program built for a quorum of Quorum reports
InitFunded(funded) == InitBuilt(funded, Quorum)

Init == InitFunded(FundedRegistrations)

\* the accepted submission runs finalization
Finalizes(a, address, txid, txid_status, pastel_ticket_type, hash, t) ==
  /\ submission_error(a, address, txid, txid_status, pastel_ticket_type, hash, t) = "Ok"
  /\ should_calculate_consensus(
       store_report(a, address, txid, txid_status, pastel_ticket_type, hash,
                    t).submissionCounts, txid)

\* history of the votes cast into the records that exist after an accepted
\* submission for txid with weight `amount`
CastAfter(cast, a, after, txid, amount) ==
  [x \in Txids |->
     IF ~HasConsensusData(after.consensusData, x) THEN 0
     ELSE IF x = txid
       THEN (IF HasConsensusData(a.consensusData, x) THEN cast[x] ELSE 0) + amount
     ELSE cast[x]]

SubmitDataReport(address, txid, txid_status, pastel_ticket_type, hash) ==
  \E a \in {CurrentAccounts} :
  \E err \in {submission_error(a, address, txid, txid_status, pastel_ticket_type,
                               hash, now)} :
  \E after \in {submit_data_report_helper(a, address, txid, txid_status,
                                          pastel_ticket_type, hash, now)} :
    /\ result' = err
    /\ contributors' = after.contributors
    /\ commonReports' = after.commonReports
    /\ tempReports' = after.tempReports
    /\ submissionCounts' = after.submissionCounts
    /\ consensusData' = after.consensusData
    /\ finalizations' =
         IF Finalizes(a, address, txid, txid_status, pastel_ticket_type, hash, now)
           THEN [finalizations EXCEPT ![txid] = @ + 1]
           ELSE finalizations
    /\ accepted' = IF err = "Ok" THEN [accepted EXCEPT ![txid] = @ + 1] ELSE accepted
    /\ castCompliance' =
         IF err = "Ok"
           THEN CastAfter(castCompliance, a, after, txid,
                  a.contributors[FindContributor(a.contributors, address)]
                    .compliance_score)
           ELSE castCompliance
    /\ castWeight' =
         IF err = "Ok"
           THEN CastAfter(castWeight, a, after, txid,
                  ReportWeight(a.contributors[FindContributor(a.contributors, address)]))
           ELSE castWeight
    /\ permanentlyBanned' = permanentlyBanned \cup Evicted(a.contributors, after.contributors)
    /\ scoringSkipped' =
         (scoringSkipped
            \/ (/\ Finalizes(a, address, txid, txid_status, pastel_ticket_type, hash, now)
                /\ HasOrphanReport(a.contributors, a.commonReports, a.tempReports, txid)))
    /\ UNCHANGED <<now, balanceVars, paymentVars, oracleVars>>

RegisterNewDataContributor(address) ==
  \E err \in {registration_error(contributors, feeReceivingBalance, address)} :
    /\ result' = err
    /\ contributors' =
         register_new_data_contributor_helper(contributors, feeReceivingBalance,
                                              address, now)
    /\ feeReceivingBalance' =
         IF err = "Ok" THEN feeReceivingBalance - reward_pool_share
                       ELSE feeReceivingBalance
    /\ rewardPoolBalance' =
         IF err = "Ok" THEN rewardPoolBalance + reward_pool_share
                       ELSE rewardPoolBalance
    /\ UNCHANGED <<now, commonReports, tempReports, submissionCounts, consensusData,
                   historyVars, contributorBalance, oracleContractStateBalance,
                   adminBalance, paymentVars, oracleVars>>

AdvanceClock ==
  /\ now < MaxTime
  /\ now' = now + 1
  /\ UNCHANGED <<result, reportVars, historyVars, balanceVars, paymentVars,
                 oracleVars>>

Next ==
  \/ \E address \in Addresses, txid \in TxidInputs, txid_status \in StatusInputs,
        pastel_ticket_type \in TicketInputs, hash \in HashInputs :
       SubmitDataReport(address, txid, txid_status, pastel_ticket_type, hash)
  \/ \E address \in Addresses : RegisterNewDataContributor(address)
  \/ AdvanceClock

Spec == Init /\ [][Next]_vars

\* the scoring of one report of `address` at a finalization: update_contributor
\* on its record, then the eviction of the permanently banned
ScoreContributor(address, is_accurate) ==
  /\ IsRegistered(contributors, address)
  /\ ContributorOf(contributors, address).total_reports_submitted < MaxReports
  /\ \E scored \in {[contributors EXCEPT ![FindContributor(contributors, address)] =
                        update_contributor(@, now, is_accurate)]} :
       /\ contributors' = apply_permanent_bans(scored)
       /\ permanentlyBanned' = permanentlyBanned \cup Evicted(contributors, contributors')
  /\ result' = "Ok"
  /\ UNCHANGED <<now, commonReports, tempReports, submissionCounts, consensusData,
                 finalizations, accepted, castCompliance, castWeight,
                 scoringSkipped, balanceVars, paymentVars, oracleVars>>

RequestReward(address) ==
  \E err \in {request_reward_error(contributors, rewardPoolBalance, address)} :
  \E after \in {request_reward_helper(contributors, rewardPoolBalance,
                                      contributorBalance, address)} :
    /\ contributorBalance[address] < MaxRewards * BASE_REWARD_AMOUNT_IN_LAMPORTS
    /\ result' = err
    /\ rewardPoolBalance' = after.rewardPoolBalance
    /\ contributorBalance' = after.contributorBalance
    /\ UNCHANGED <<now, reportVars, historyVars, feeReceivingBalance,
                   oracleContractStateBalance, adminBalance, paymentVars,
                   oracleVars>>

\* rewards: one contributor registers, has its reports scored and requests
\* rewards; the other address stays outside the registry
NextRewards ==
  \/ \E address \in RewardedAddresses : RegisterNewDataContributor(address)
  \/ \E address \in RewardedAddresses, is_accurate \in BOOLEAN :
       ScoreContributor(address, is_accurate)
  \/ \E address \in Addresses : RequestReward(address)
  \/ AdvanceClock

SpecRewards == InitFunded(1) /\ [][NextRewards]_vars

\* add_pending_payment(txid, expected_amount, payment_status): the pending
\* payment account of the txid, which does not exist yet, is created with
\* these values
AddPendingPayment(txid, expected_amount, payment_status) ==
  /\ pendingPayments[txid] = NoPendingPayment
  /\ pendingPayments' =
       [pendingPayments EXCEPT ![txid] =
          PendingPayment(txid, expected_amount, payment_status)]
  /\ result' = "Ok"
  /\ UNCHANGED <<now, reportVars, historyVars, balanceVars, monitoredTxids,
                 oracleVars>>

AddTxidForMonitoring(caller, txid) ==
  \E err \in {add_txid_for_monitoring_error(bridgeContractPubkey, caller, txid)} :
    /\ Len(monitoredTxids) < MaxMonitored
    /\ result' = err
    /\ monitoredTxids' = IF err = "Ok" THEN Append(monitoredTxids, txid)
                                       ELSE monitoredTxids
    /\ pendingPayments' =
         IF err = "Ok"
           THEN [pendingPayments EXCEPT ![txid] = monitoring_payment(txid)]
           ELSE pendingPayments
    /\ UNCHANGED <<now, reportVars, historyVars, balanceVars, oracleVars>>

\* process_payment(txid, amount) on the pending payment account `account`
ProcessPayment(account, txid, amount) ==
  /\ pendingPayments[account] # NoPendingPayment
  /\ result' = process_payment_error(pendingPayments[account], txid, amount)
  /\ pendingPayments' =
       [pendingPayments EXCEPT ![account] = process_payment_helper(@, txid, amount)]
  /\ UNCHANGED <<now, reportVars, historyVars, balanceVars, monitoredTxids,
                 oracleVars>>

CurrentOracleState ==
  OracleState(isInitialized, adminPubkey, bridgeContractPubkey, monitoredTxids)

\* the deployed program before initialize: no account holds anything
InitDeployed ==
  /\ now = 0
  /\ contributors = <<>>
  /\ commonReports = <<>>
  /\ tempReports = <<>>
  /\ submissionCounts = <<>>
  /\ consensusData = <<>>
  /\ result = "Ok"
  /\ finalizations = [t \in Txids |-> 0]
  /\ accepted = [t \in Txids |-> 0]
  /\ castCompliance = [t \in Txids |-> 0]
  /\ castWeight = [t \in Txids |-> 0]
  /\ permanentlyBanned = {}
  /\ scoringSkipped = FALSE
  /\ feeReceivingBalance = 0
  /\ rewardPoolBalance = 0
  /\ contributorBalance = [address \in Addresses |-> 0]
  /\ oracleContractStateBalance = 0
  /\ adminBalance = 0
  /\ monitoredTxids = <<>>
  /\ pendingPayments = [t \in Txids |-> NoPendingPayment]
  /\ isInitialized = FALSE
  /\ pdasInitialized = FALSE
  /\ adminPubkey = DefaultPubkey
  /\ bridgeContractPubkey = DefaultPubkey
  /\ accountSize = 0
  /\ minNumberOfOracles = Quorum

\* initialize(), signed by `user`
Initialize(user) ==
  \E after \in {initialize_oracle_state(CurrentOracleState, user)} :
    /\ result' = initialize_error(CurrentOracleState)
    /\ isInitialized' = after.is_initialized
    /\ adminPubkey' = after.admin_pubkey
    /\ bridgeContractPubkey' = after.bridge_contract_pubkey
    /\ monitoredTxids' = after.monitored_txids
    /\ UNCHANGED <<now, reportVars, historyVars, balanceVars, pendingPayments,
                   pdasInitialized, accountSize, minNumberOfOracles>>

\* initialize_pdas()
InitializePdas ==
  \E err \in {initialize_pdas_error(pdasInitialized)} :
  \E after \in {initialize_pdas_helper(pdasInitialized, CurrentAccounts)} :
    /\ result' = err
    /\ pdasInitialized' = TRUE
    /\ accountSize' = IF err = "Ok" THEN INITIAL_ACCOUNT_SIZE ELSE accountSize
    /\ contributors' = after.contributors
    /\ commonReports' = after.commonReports
    /\ tempReports' = after.tempReports
    /\ submissionCounts' = after.submissionCounts
    /\ consensusData' = after.consensusData
    /\ UNCHANGED <<now, historyVars, balanceVars, paymentVars, isInitialized,
                   adminPubkey, bridgeContractPubkey, minNumberOfOracles>>

\* set_bridge_contract(bridge_contract_pubkey), signed by `signer`
SetBridgeContract(signer, bridge_contract_pubkey) ==
  \E after \in {set_bridge_contract(CurrentOracleState, signer,
                                    bridge_contract_pubkey)} :
    /\ result' = admin_error(adminPubkey, signer)
    /\ bridgeContractPubkey' = after.bridge_contract_pubkey
    /\ UNCHANGED <<now, reportVars, historyVars, balanceVars, paymentVars,
                   isInitialized, pdasInitialized, adminPubkey, accountSize,
                   minNumberOfOracles>>

\* withdraw_funds(reward_pool_amount, fee_receiving_amount), signed by `signer`
WithdrawFunds(signer, reward_pool_amount, fee_receiving_amount) ==
  \E after \in {withdraw_funds_helper(adminPubkey, signer, rewardPoolBalance,
                                      feeReceivingBalance, adminBalance,
                                      reward_pool_amount, fee_receiving_amount)} :
    /\ result' = withdraw_funds_error(adminPubkey, signer, rewardPoolBalance,
                                       feeReceivingBalance, reward_pool_amount,
                                       fee_receiving_amount)
    /\ rewardPoolBalance' = after.rewardPoolBalance
    /\ feeReceivingBalance' = after.feeReceivingBalance
    /\ adminBalance' = after.adminBalance
    /\ UNCHANGED <<now, reportVars, historyVars, contributorBalance,
                   oracleContractStateBalance, paymentVars, oracleVars>>

\* reallocate_oracle_state(): the data accounts grow by one step
ReallocateOracleState ==
  \E after \in {reallocate_oracle_state_helper(CurrentAccounts)} :
    /\ pdasInitialized
    /\ accountSize < INITIAL_ACCOUNT_SIZE + MaxReallocations * REALLOCATION_STEP
    /\ result' = "Ok"
    /\ accountSize' = reallocated_size(accountSize)
    /\ contributors' = after.contributors
    /\ commonReports' = after.commonReports
    /\ tempReports' = after.tempReports
    /\ submissionCounts' = after.submissionCounts
    /\ consensusData' = after.consensusData
    /\ UNCHANGED <<now, historyVars, balanceVars, paymentVars, isInitialized,
                   pdasInitialized, adminPubkey, bridgeContractPubkey,
                   minNumberOfOracles>>

\* a contributor transfers the registration fee to the fee-receiving account
PayRegistrationFee ==
  /\ feeReceivingBalance + rewardPoolBalance + adminBalance
       < FundedRegistrations * REGISTRATION_ENTRANCE_FEE_IN_LAMPORTS
  /\ feeReceivingBalance' = feeReceivingBalance + REGISTRATION_ENTRANCE_FEE_IN_LAMPORTS
  /\ result' = "Ok"
  /\ UNCHANGED <<now, reportVars, historyVars, rewardPoolBalance, contributorBalance,
                 oracleContractStateBalance, adminBalance, paymentVars, oracleVars>>

\* monitoring and payments
NextPayments ==
  \/ \E txid \in Txids, expected_amount \in ExpectedAmountInputs :
       AddPendingPayment(txid, expected_amount, "Pending")
  \/ \E caller \in Callers, txid \in MonitoredTxidInputs :
       AddTxidForMonitoring(caller, txid)
  \/ \E account \in Txids, txid \in Txids, amount \in PaymentAmountInputs :
       ProcessPayment(account, txid, amount)
  \/ \E signer \in Callers, bridge_contract_pubkey \in Callers :
       SetBridgeContract(signer, bridge_contract_pubkey)

SpecPayments == Init /\ [][NextPayments]_vars

\* one txid, two hash prefixes, malformed reports
NextReports ==
  \/ \E address \in Addresses, txid \in ReportTxidInputs, txid_status \in StatusInputs,
        pastel_ticket_type \in ReportTicketInputs, hash \in ReportHashInputs :
       SubmitDataReport(address, txid, txid_status, pastel_ticket_type, hash)
  \/ \E address \in Addresses : RegisterNewDataContributor(address)
  \/ AdvanceClock

SpecReports == Init /\ [][NextReports]_vars

\* evictions: contributors report on one txid while reports of theirs are
\* scored inaccurate at the finalizations of other txids, which bans and
\* evicts them
NextEvictions ==
  \/ \E address \in Addresses, txid_status \in StatusInputs :
       SubmitDataReport(address, TxidX, txid_status, "Nft", HashA)
  \/ \E address \in Addresses : RegisterNewDataContributor(address)
  \/ \E address \in Addresses : ScoreContributor(address, FALSE)

SpecEvictions == Init /\ [][NextEvictions]_vars

\* administration: initialization, the bridge contract, reallocation, fees
\* paid in, registrations and withdrawals
NextAdmin ==
  \/ \E user \in Callers : Initialize(user)
  \/ InitializePdas
  \/ \E signer \in Callers, bridge_contract_pubkey \in Callers :
       SetBridgeContract(signer, bridge_contract_pubkey)
  \/ \E signer \in Callers, reward_pool_amount \in WithdrawAmountInputs,
        fee_receiving_amount \in WithdrawAmountInputs :
       WithdrawFunds(signer, reward_pool_amount, fee_receiving_amount)
  \/ ReallocateOracleState
  \/ PayRegistrationFee
  \/ \E address \in Addresses : pdasInitialized /\ RegisterNewDataContributor(address)

SpecAdmin == InitDeployed /\ [][NextAdmin]_vars

\* initialization: the program is initialized and its accounts grow,
\* contributors register and report on one txid, the bridge contract has the
\* txid monitored, and initialize and initialize_pdas are called again at any
\* time
NextInit ==
  \/ \E user \in Callers : Initialize(user)
  \/ InitializePdas
  \/ ReallocateOracleState
  \/ isInitialized /\ SetBridgeContract(adminPubkey, adminPubkey)
  \/ isInitialized /\ AddTxidForMonitoring(adminPubkey, TxidX)
  \/ pdasInitialized /\ PayRegistrationFee
  \/ \E address \in Addresses : pdasInitialized /\ RegisterNewDataContributor(address)
  \/ \E address \in Addresses, txid_status \in StatusInputs :
       pdasInitialized /\ SubmitDataReport(address, TxidX, txid_status, "Nft", HashA)

SpecInit == InitDeployed /\ [][NextInit]_vars

\* The amounts the admin withdraws from the reward pool under SpecPool: the
\* whole share of one registration, all of it but one reward, and all of it
\* but one reward and a half.
PoolWithdrawalInputs ==
  { reward_pool_share,
    reward_pool_share - BASE_REWARD_AMOUNT_IN_LAMPORTS,
    reward_pool_share - BASE_REWARD_AMOUNT_IN_LAMPORTS
      - BASE_REWARD_AMOUNT_IN_LAMPORTS \div 2 }

\* the reward pool: one contributor registers, has accurate reports scored
\* and requests rewards while the admin withdraws from the reward pool
NextPool ==
  \/ \E address \in RewardedAddresses : RegisterNewDataContributor(address)
  \/ \E address \in RewardedAddresses : ScoreContributor(address, TRUE)
  \/ \E address \in Addresses : RequestReward(address)
  \/ \E reward_pool_amount \in PoolWithdrawalInputs :
       WithdrawFunds(adminPubkey, reward_pool_amount, 0)

SpecPool == InitFunded(1) /\ [][NextPool]_vars

\* the retention sweep: the program built for a quorum of Quorum + 1 reports,
\* so that a txid that is still collecting holds reports of different ages
\* when the finalization of the other txid sweeps the accounts
InitSweep == InitBuilt(FundedRegistrations, Quorum + 1)

NextSweep ==
  \/ \E address \in Addresses : RegisterNewDataContributor(address)
  \/ \E address \in Addresses, txid \in Txids :
       SubmitDataReport(address, txid, MinedActivated, "Nft", HashA)
  \/ AdvanceClock

SpecSweep == InitSweep /\ [][NextSweep]_vars

\* common report data: reports for two txids under two ticket types, so that
\* one txid has several CommonReportData entries
NextCommon ==
  \/ \E address \in Addresses : RegisterNewDataContributor(address)
  \/ \E address \in Addresses, txid \in Txids,
        pastel_ticket_type \in CommonTicketInputs :
       SubmitDataReport(address, txid, MinedActivated, pastel_ticket_type, HashA)
  \/ AdvanceClock

SpecCommon == Init /\ [][NextCommon]_vars

(***************************************************************************)
(* Properties.                                                             *)
(***************************************************************************)
CountOf(txid) == SubmissionCountOf(submissionCounts, txid)
CountOfNext(txid) == SubmissionCountOf(submissionCounts', txid)

\* last_updated of the txid's SubmissionCount entry (which must exist)
CountLastUpdated(txid) ==
  submissionCounts[FirstIndex(submissionCounts, LAMBDA e : e.txid = txid)].last_updated

\* the stored reports whose common-data reference resolves to txid
ReportsOf(common, reports, txid) ==
  Retain(reports, LAMBDA r : ReportTxid(common, r) = txid)

SumStatusWeights(e) ==
  e.status_weights[Invalid] + e.status_weights[PendingMining]
    + e.status_weights[MinedPendingActivation] + e.status_weights[MinedActivated]

\* C1 as stated: over the whole history calculate_consensus runs at most once
\* per txid, however far the clock advances and whichever sweeps run.
C1_Original == \A t \in Txids : finalizations[t] <= 1

\* C1 as amended: calculate_consensus runs at most once per lifetime of the
\* txid's SubmissionCount entry.  A step that finalizes txid t finalizes it
\* once, starts from a count below MIN_NUMBER_OF_ORACLES and leaves the count
\* at or above it; from then on the count stays there (so no further report
\* is accepted and no finalization runs) until a cleanup sweep prunes the
\* entry, which it does only when the entry's last update is at least
\* SUBMISSION_COUNT_RETENTION_PERIOD old.
C1_Amended ==
  [][\A t \in Txids :
       /\ finalizations'[t] # finalizations[t] =>
            /\ finalizations'[t] = finalizations[t] + 1
            /\ CountOf(t) < MIN_NUMBER_OF_ORACLES
            /\ CountOfNext(t) >= MIN_NUMBER_OF_ORACLES
       /\ CountOf(t) >= MIN_NUMBER_OF_ORACLES =>
            \/ CountOfNext(t) = CountOf(t)
            \/ /\ CountOfNext(t) = 0
               /\ now - CountLastUpdated(t) >= SUBMISSION_COUNT_RETENTION_PERIOD]_vars

\* a txid has been finalized a second time, after its count was pruned
C1_Witness == \E t \in Txids : finalizations[t] = 2

\* C2: should_calculate_consensus is false below MIN_NUMBER_OF_ORACLES and
\* true from it on; a step finalizes txid t exactly when it is the accepted
\* report that raises t's count to MIN_NUMBER_OF_ORACLES, and then at least
\* MIN_NUMBER_OF_ORACLES reports have been accepted for t.
C2_QuorumGate ==
  [][\A t \in Txids :
       /\ should_calculate_consensus(submissionCounts', t)
            <=> CountOfNext(t) >= MIN_NUMBER_OF_ORACLES
       /\ finalizations'[t] # finalizations[t]
            <=> /\ accepted'[t] = accepted[t] + 1
                /\ CountOf(t) + 1 = MIN_NUMBER_OF_ORACLES
       /\ finalizations'[t] # finalizations[t]
            => /\ result' = "Ok"
               /\ accepted'[t] >= MIN_NUMBER_OF_ORACLES]_vars

\* the quorum-th report of a txid has just been accepted and finalized it
C2_Witness ==
  \E t \in Txids :
    /\ finalizations[t] = 1
    /\ accepted[t] = MIN_NUMBER_OF_ORACLES
    /\ CountOf(t) = MIN_NUMBER_OF_ORACLES
    /\ result = "Ok"

\* C3: a submission is rejected with EnoughReportsSubmittedForTxid exactly
\* when its report is valid, its contributor registered and not banned, and
\* the txid's count is at or above the ceiling; the error is never returned
\* while fewer than MIN_NUMBER_OF_ORACLES reports were accepted for the txid.
AtCeiling(address, txid, txid_status, pastel_ticket_type, hash) ==
  /\ validate_data_contributor_report(txid, txid_status, pastel_ticket_type, hash) = "Ok"
  /\ IsRegistered(contributors, address)
  /\ ~calculate_is_banned(contributors[FindContributor(contributors, address)], now)
  /\ CountOf(txid) >= MIN_NUMBER_OF_ORACLES

C3_EnoughReports ==
  [][\A address \in Addresses, txid \in ReportTxidInputs, txid_status \in StatusInputs,
        pastel_ticket_type \in ReportTicketInputs, hash \in ReportHashInputs :
       /\ ( /\ result' = "EnoughReportsSubmittedForTxid"
            /\ SubmitDataReport(address, txid, txid_status, pastel_ticket_type, hash) )
            => /\ AtCeiling(address, txid, txid_status, pastel_ticket_type, hash)
               /\ accepted[txid] >= MIN_NUMBER_OF_ORACLES
       /\ ( /\ AtCeiling(address, txid, txid_status, pastel_ticket_type, hash)
            /\ SubmitDataReport(address, txid, txid_status, pastel_ticket_type, hash) )
            => result' = "EnoughReportsSubmittedForTxid"]_vars

\* a report for a txid at the ceiling has been rejected
C3_Witness ==
  /\ result = "EnoughReportsSubmittedForTxid"
  /\ CountOf(TxidX) >= MIN_NUMBER_OF_ORACLES

C5_ConsensusStatus ==
  \A i \in DOMAIN consensusData :
    LET w == consensusData[i].status_weights
        s == compute_consensus(consensusData[i]).status
    IN /\ \A r \in TxidStatusValues : w[r] <= w[s]
       /\ \A r \in TxidStatusValues : r < s => w[r] < w[s]

\* a record in which two statuses share the greatest weight
C5_Witness ==
  \E i \in DOMAIN consensusData :
    LET w == consensusData[i].status_weights
    IN /\ w[Invalid] = w[MinedActivated]
       /\ w[Invalid] > 0
       /\ compute_consensus(consensusData[i]).status = Invalid

\* C6 as stated: the consensus hash is the hash of the entry of greatest
\* weight, and among the entries of greatest weight the first one appended.
C6_FirstSeen ==
  \A i \in DOMAIN consensusData :
    LET hw == consensusData[i].hash_weights
        first == FirstIndex(hw, LAMBDA e : \A j \in DOMAIN hw : hw[j].weight <= e.weight)
    IN compute_consensus(consensusData[i]).hash = hw[first].hash

\* the number of elements of a sequence that satisfy P
CountIf(seq, P(_)) == Len(SelectSeq(seq, P))

\* C7: at the finalization of a txid every stored report of that txid whose
\* contributor is registered updates that contributor once, as accurate
\* exactly when its status and its hash equal the consensus status and hash;
\* a contributor with no report for the txid is left as it was; a contributor
\* whose single report is accurate has its streak and its total raised by 1.
C7_Scoring ==
  [][\A address \in Addresses, txid \in Txids, txid_status \in StatusInputs,
        pastel_ticket_type \in ReportTicketInputs, hash \in ReportHashInputs :
       ( /\ finalizations'[txid] # finalizations[txid]
         /\ SubmitDataReport(address, txid, txid_status, pastel_ticket_type, hash) ) =>
         LET stored == store_report(CurrentAccounts, address, txid, txid_status,
                                    pastel_ticket_type, hash, now)
             reports == ReportsOf(stored.commonReports, stored.tempReports, txid)
             consensus == compute_consensus(get_aggregated_data(stored.consensusData, txid))
         IN \A k \in DOMAIN contributors :
              LET c == contributors[k]
                  mine(r) == r.contributor_reward_address = c.reward_address
                  right(r) == /\ mine(r)
                              /\ r.txid_status = consensus.status
                              /\ r.first_6_characters_hash = consensus.hash
                  n == CountIf(reports, mine)
                  m == CountIf(reports, right)
                  k2 == FindContributor(contributors', c.reward_address)
              IN IF k2 = 0
                   THEN c.consensus_failures + (n - m) >= PERMANENT_BAN_THRESHOLD
                   ELSE LET d == contributors'[k2]
                        IN /\ d.total_reports_submitted = c.total_reports_submitted + n
                           /\ d.accurate_reports_count = c.accurate_reports_count + m
                           /\ d.consensus_failures = c.consensus_failures + (n - m)
                           /\ n = 0 => d = c
                           /\ (n = 1 /\ m = 1) => d.current_streak = c.current_streak + 1
                           /\ m < n => d.current_streak <= m]_vars

\* the scenario: a txid has been finalized by MIN_NUMBER_OF_ORACLES distinct
\* contributors that all agree; each has streak 1 and one report counted
C7_Witness ==
  /\ finalizations[TxidX] = 1
  /\ Len(contributors) = MIN_NUMBER_OF_ORACLES
  /\ \A k \in DOMAIN contributors :
       /\ contributors[k].current_streak = 1
       /\ contributors[k].total_reports_submitted = 1
       /\ contributors[k].accurate_reports_count = 1

NoReportsOf(common, reports, txid) == ReportsOf(common, reports, txid) = <<>>

\* C8: after the step that finalizes a txid no stored report resolves to that
\* txid, and a txid without stored reports stays without them in every step
\* that does not accept a new report for it.
C8_ReportsCleaned ==
  [][\A t \in Txids :
       /\ finalizations'[t] # finalizations[t]
            => NoReportsOf(commonReports', tempReports', t)
       /\ ( /\ NoReportsOf(commonReports, tempReports, t)
            /\ accepted'[t] = accepted[t] )
            => NoReportsOf(commonReports', tempReports', t)]_vars

\* a txid was finalized while reports of the other txid were in flight: its
\* reports are gone, the other txid's report is still stored
C8_Witness ==
  \E t \in Txids, u \in Txids :
    /\ t # u
    /\ finalizations[t] = 1
    /\ accepted[t] = MIN_NUMBER_OF_ORACLES
    /\ NoReportsOf(commonReports, tempReports, t)
    /\ ~NoReportsOf(commonReports, tempReports, u)

\* C9 as stated: after the step that finalizes a txid no AggregatedConsensusData
\* entry of that txid exists.
C9_Original ==
  [][\A t \in Txids :
       finalizations'[t] # finalizations[t] => ~HasConsensusData(consensusData', t)]_vars

\* C9 as amended: post_consensus_tasks evicts AggregatedConsensusData entries
\* by age only.  After the step that finalizes a txid the txid's entry, updated
\* in that very step, is still in the store, and every entry of another txid
\* whose last update is at least DATA_RETENTION_PERIOD old is gone; an entry
\* leaves the store only in a finalizing step at which it is that old.
C9_Amended ==
  [][/\ \A t \in Txids :
          finalizations'[t] # finalizations[t] =>
            /\ HasConsensusData(consensusData', t)
            /\ get_aggregated_data(consensusData', t).last_updated = now
            /\ \A i \in DOMAIN consensusData :
                 ( /\ consensusData[i].txid # t
                   /\ now - consensusData[i].last_updated >= DATA_RETENTION_PERIOD )
                   => ~HasConsensusData(consensusData', consensusData[i].txid)
     /\ \A i \in DOMAIN consensusData :
          ~HasConsensusData(consensusData', consensusData[i].txid) =>
            /\ now - consensusData[i].last_updated >= DATA_RETENTION_PERIOD
            /\ \E t \in Txids : finalizations'[t] # finalizations[t]]_vars

\* a finalized txid whose aggregated entry is still stored, and an entry of
\* another txid has been evicted by age
C9_Witness ==
  \E t \in Txids, u \in Txids :
    /\ finalizations[t] >= 1
    /\ HasConsensusData(consensusData, t)
    /\ CountOf(t) >= MIN_NUMBER_OF_ORACLES
    /\ accepted[u] > 0
    /\ ~HasConsensusData(consensusData, u)

BanOutcome(c, txid) ==
  IF now < c.ban_expiry THEN "ContributorBanned"
  ELSE IF CountOf(txid) >= MIN_NUMBER_OF_ORACLES THEN "EnoughReportsSubmittedForTxid"
  ELSE "Ok"

\* C11: a scoring update that raises consensus_failures to the temporary-ban
\* threshold or above, and below the permanent one, sets ban_expiry to
\* now + TEMPORARY_BAN_DURATION.  A valid report of a registered contributor
\* whose ban is not permanent is rejected with ContributorBanned while
\* now < ban_expiry; from now >= ban_expiry on, with no other operation in
\* between, it is accepted unless the txid is at the ceiling.  A call that
\* returns ContributorBanned accepts no report, and some registered
\* contributor is banned at that instant.
C11_TemporaryBan ==
  /\ [](\A k \in DOMAIN contributors :
          contributors[k].ban_expiry # PERMANENT_BAN_SENTINEL =>
            \A txid \in TxidInputs, txid_status \in StatusInputs,
               pastel_ticket_type \in TicketInputs, hash \in HashInputs :
              submission_error(CurrentAccounts, contributors[k].reward_address, txid,
                               txid_status, pastel_ticket_type, hash, now)
                = BanOutcome(contributors[k], txid))
  /\ [][/\ \A k \in DOMAIN contributors :
             LET c == contributors[k]
             IN IsRegistered(contributors', c.reward_address) =>
                  LET d == ContributorOf(contributors', c.reward_address)
                  IN ( /\ d.consensus_failures > c.consensus_failures
                       /\ d.consensus_failures >= TEMPORARY_BAN_THRESHOLD
                       /\ d.consensus_failures < PERMANENT_BAN_THRESHOLD )
                       => d.ban_expiry = now + TEMPORARY_BAN_DURATION
        /\ (result' = "ContributorBanned" /\ now' = now) =>
             /\ accepted' = accepted
             /\ \E k \in DOMAIN contributors : now < contributors[k].ban_expiry]_vars

\* a contributor that was banned temporarily has, the ban expired, had a report
\* accepted: the report is stored with a timestamp at or after the ban's expiry
C11_Witness ==
  \E k \in DOMAIN contributors, j \in DOMAIN tempReports :
    /\ contributors[k].ban_expiry > 0
    /\ contributors[k].ban_expiry # PERMANENT_BAN_SENTINEL
    /\ contributors[k].consensus_failures >= TEMPORARY_BAN_THRESHOLD
    /\ tempReports[j].contributor_reward_address = contributors[k].reward_address
    /\ tempReports[j].timestamp >= contributors[k].ban_expiry
    /\ now >= contributors[k].ban_expiry

\* C12 as stated: an address that a scoring update has banned permanently has
\* no report accepted afterwards, whatever operations come in between, the
\* eviction by the post-consensus cleanup and register calls included.
C12_PermanentBan ==
  [][\A address \in permanentlyBanned :
       (result' = "Ok" /\ accepted' # accepted) =>
         ~ \E txid \in TxidInputs, txid_status \in StatusInputs,
              pastel_ticket_type \in TicketInputs, hash \in HashInputs :
             SubmitDataReport(address, txid, txid_status, pastel_ticket_type, hash)]_vars

\* the errors a submission can be rejected with
SubmitErrors ==
  {"InvalidTxid", "InvalidTicketType", "InvalidFileHashLength", "MissingFileHash",
   "ContributorNotRegistered", "ContributorBanned", "EnoughReportsSubmittedForTxid"}

\* C13: a submit_data_report call that is rejected with a validation, an
\* authorization or a capacity error leaves the stored reports, the common
\* report data, the submission counts, the aggregated consensus data and the
\* contributor registry exactly as they were before the call.
C13_RejectedUnchanged ==
  [][(result' \in SubmitErrors /\ now' = now) => UNCHANGED reportVars]_vars

\* a report was rejected for a ban while the txid had a submission count and
\* aggregated consensus data
C13_Witness ==
  /\ result = "ContributorBanned"
  /\ submissionCounts # <<>>
  /\ consensusData # <<>>

\* has the hash prefix the wrong form, and which error says so
HashError(hash) ==
  IF hash = <<>> THEN "MissingFileHash"
  ELSE IF Len(hash) # HASH_PREFIX_LENGTH \/ \E i \in DOMAIN hash : hash[i] \notin HexChars
    THEN "InvalidFileHashLength"
  ELSE "Ok"

\* the first check that fails, in the order txid, ticket type, hash prefix,
\* contributor registered, contributor banned, submission-count ceiling
FirstFailure(address, txid, pastel_ticket_type, hash) ==
  IF txid = <<>> THEN "InvalidTxid"
  ELSE IF pastel_ticket_type \notin PastelTicketTypes THEN "InvalidTicketType"
  ELSE IF HashError(hash) # "Ok" THEN HashError(hash)
  ELSE IF ~IsRegistered(contributors, address) THEN "ContributorNotRegistered"
  ELSE IF \/ ContributorOf(contributors, address).ban_expiry = PERMANENT_BAN_SENTINEL
          \/ ContributorOf(contributors, address).ban_expiry > now
    THEN "ContributorBanned"
  ELSE IF CountOf(txid) >= MIN_NUMBER_OF_ORACLES THEN "EnoughReportsSubmittedForTxid"
  ELSE "Ok"

\* C14: submit_data_report checks its failure conditions in the order txid,
\* ticket type, hash prefix, contributor registered, contributor banned,
\* submission-count ceiling, and returns the first one that fails; a report
\* that fails none of them is accepted.
C14_CheckOrder ==
  /\ [](\A address \in Addresses, txid \in ReportTxidInputs, txid_status \in StatusInputs,
           pastel_ticket_type \in ReportTicketInputs, hash \in ReportHashInputs :
          submission_error(CurrentAccounts, address, txid, txid_status,
                           pastel_ticket_type, hash, now)
            = FirstFailure(address, txid, pastel_ticket_type, hash))
  /\ [][(result' \in SubmitErrors /\ now' = now) =>
          \E address \in Addresses, txid \in ReportTxidInputs,
             pastel_ticket_type \in ReportTicketInputs, hash \in ReportHashInputs :
            result' = FirstFailure(address, txid, pastel_ticket_type, hash)]_vars

\* an unregistered contributor's report for a txid at the ceiling was rejected
\* with ContributorNotRegistered
C14_Witness ==
  /\ result = "ContributorNotRegistered"
  /\ CountOf(TxidX) >= MIN_NUMBER_OF_ORACLES
  /\ \E address \in Addresses : ~IsRegistered(contributors, address)

\* the in-flight reports of txid that name the contributor address
ReportsBy(txid, address) ==
  SelectSeq(tempReports,
    LAMBDA r : /\ ReportTxid(commonReports, r) = txid
               /\ r.contributor_reward_address = address)

\* C15 as stated: the stored reports are deduplicated by (txid, contributor):
\* a contributor that has an in-flight report for a txid has no further
\* report for that txid accepted, so that there is at most one in-flight
\* report per (txid, contributor) and a contributor raises the txid's
\* submission count and aggregated weights at most once.
C15_Deduplicated ==
  [][\A txid \in Txids, address \in Addresses :
       (Len(ReportsBy(txid, address)) >= 1 /\ accepted'[txid] # accepted[txid]) =>
         ~ \E txid_status \in StatusInputs, pastel_ticket_type \in TicketInputs,
              hash \in HashInputs :
             SubmitDataReport(address, txid, txid_status, pastel_ticket_type, hash)]_vars

\* C16: register_new_data_contributor succeeds only for an address that is not
\* in the registry, and then appends exactly one Contributor for it with
\* compliance_score = reliability_score = 1.0 scaled, all counters zero,
\* ban_expiry = 0 and all derived flags false; for an address already in the
\* registry it fails with ContributorAlreadyRegistered; every failing call
\* leaves the registry, the scores and counters of that contributor included,
\* unchanged.
C16_Register ==
  [][\A address \in Addresses :
       RegisterNewDataContributor(address) =>
         /\ IsRegistered(contributors, address) =>
              result' = "ContributorAlreadyRegistered"
         /\ result' # "Ok" => contributors' = contributors
         /\ result' = "Ok" =>
              /\ ~IsRegistered(contributors, address)
              /\ Len(contributors') = Len(contributors) + 1
              /\ SubSeq(contributors', 1, Len(contributors)) = contributors
              /\ LET c == contributors'[Len(contributors')]
                 IN /\ c.reward_address = address
                    /\ c.compliance_score = 1 * ScoreScale
                    /\ c.reliability_score = 1 * ScoreScale
                    /\ c.total_reports_submitted = 0
                    /\ c.accurate_reports_count = 0
                    /\ c.current_streak = 0
                    /\ c.consensus_failures = 0
                    /\ c.ban_expiry = 0
                    /\ ~c.is_eligible_for_rewards
                    /\ ~c.is_recently_active
                    /\ ~c.is_reliable]_vars

\* a contributor with scored reports was registered again, and rejected
C16_Witness ==
  /\ result = "ContributorAlreadyRegistered"
  /\ \E k \in DOMAIN contributors :
       /\ contributors[k].total_reports_submitted > 0
       /\ contributors[k].compliance_score # INITIAL_SCORE

C18_RewardTransfer ==
  [][\A address \in Addresses :
       (result' = "Ok" /\ RequestReward(address)) =>
         /\ IsRegistered(contributors, address)
         /\ ContributorOf(contributors, address).is_eligible_for_rewards
         /\ rewardPoolBalance' = rewardPoolBalance - BASE_REWARD_AMOUNT_IN_LAMPORTS
         /\ rewardPoolBalance' >= 0
         /\ contributorBalance'[address] =
              contributorBalance[address] + BASE_REWARD_AMOUNT_IN_LAMPORTS
         /\ \A other \in Addresses \ {address} :
              contributorBalance'[other] = contributorBalance[other]
         /\ oracleContractStateBalance' = oracleContractStateBalance
         /\ feeReceivingBalance' = feeReceivingBalance
         /\ rewardPoolBalance' + contributorBalance'[address] + oracleContractStateBalance'
              = rewardPoolBalance + contributorBalance[address] + oracleContractStateBalance]_vars

\* a reward was paid out of the pool
C18_Witness ==
  \E address \in Addresses :
    /\ contributorBalance[address] >= BASE_REWARD_AMOUNT_IN_LAMPORTS
    /\ IsRegistered(contributors, address)
    /\ rewardPoolBalance = reward_pool_share - contributorBalance[address]

\* C19: request_reward for a registered contributor that does not meet the
\* eligibility criteria fails with NotEligibleForReward, and request_reward
\* for an address that is not in the registry fails with UnregisteredOracle;
\* in both cases no balance and no contributor record changes.
C19_RewardRefused ==
  [][\A address \in Addresses :
       RequestReward(address) =>
         /\ ~IsRegistered(contributors, address) =>
              /\ result' = "UnregisteredOracle"
              /\ UNCHANGED <<balanceVars, contributors>>
         /\ ( /\ IsRegistered(contributors, address)
              /\ \/ ContributorOf(contributors, address).total_reports_submitted
                      < MIN_REPORTS_FOR_REWARD
                 \/ ContributorOf(contributors, address).reliability_score
                      < MIN_RELIABILITY_SCORE_FOR_REWARD
                 \/ ContributorOf(contributors, address).compliance_score
                      < MIN_COMPLIANCE_SCORE_FOR_REWARD ) =>
              /\ result' = "NotEligibleForReward"
              /\ UNCHANGED <<balanceVars, contributors>>]_vars

\* a contributor with enough reports and a score below the minimum was
\* refused a reward
C19_Witness ==
  /\ result = "NotEligibleForReward"
  /\ \E k \in DOMAIN contributors :
       /\ contributors[k].total_reports_submitted >= MIN_REPORTS_FOR_REWARD
       /\ contributors[k].compliance_score < MIN_COMPLIANCE_SCORE_FOR_REWARD

\* C20 as stated: the status of a pending payment moves only from Pending to
\* Received, and only through a process_payment call whose txid equals the
\* account's txid and whose amount equals its expected amount; a call with a
\* different txid fails with PaymentNotFound, one with a different amount
\* fails with InvalidPaymentAmount, both leave the status unchanged; a
\* Received payment never returns to Pending.
C20_PaymentStatus ==
  [][\A account \in Txids :
       LET payment == pendingPayments[account]
       IN payment # NoPendingPayment =>
            /\ pendingPayments'[account].payment_status # payment.payment_status =>
                 /\ payment.payment_status = "Pending"
                 /\ pendingPayments'[account].payment_status = "Received"
                 /\ ProcessPayment(account, payment.txid, payment.expected_amount)
            /\ payment.payment_status = "Received" =>
                 pendingPayments'[account].payment_status = "Received"
            /\ \A txid \in Txids, amount \in PaymentAmountInputs :
                 ProcessPayment(account, txid, amount) =>
                   /\ txid # payment.txid =>
                        /\ result' = "PaymentNotFound"
                        /\ pendingPayments'[account] = payment
                   /\ (txid = payment.txid /\ amount # payment.expected_amount) =>
                        /\ result' = "InvalidPaymentAmount"
                        /\ pendingPayments'[account] = payment]_vars

\* the txid a step appends to monitored_txids
AdmittedTxid == monitoredTxids'[Len(monitoredTxids')]

\* C21 as stated: a txid is admitted to the monitored list only when the fee
\* for monitoring it has been paid: the PendingPayment of a txid has the
\* status Received at the time the txid is added to monitored_txids.
C21_FeeGate ==
  [][Len(monitoredTxids') > Len(monitoredTxids) =>
       \/ pendingPayments[AdmittedTxid].payment_status = "Received"
       \/ pendingPayments'[AdmittedTxid].payment_status = "Received"]_vars

\* C21 as amended: every txid in monitored_txids has a PendingPayment that
\* holds the txid and the expected amount, and at the time the txid is added
\* the status of that PendingPayment is Pending: the fee is not yet paid.
C21_Amended ==
  /\ [](\A k \in DOMAIN monitoredTxids :
          /\ pendingPayments[monitoredTxids[k]].txid = monitoredTxids[k]
          /\ pendingPayments[monitoredTxids[k]].expected_amount =
               COST_IN_LAMPORTS_OF_ADDING_PASTEL_TXID_FOR_MONITORING)
  /\ [][Len(monitoredTxids') > Len(monitoredTxids) =>
          pendingPayments'[AdmittedTxid].payment_status = "Pending"]_vars

\* a txid was admitted while its payment was pending, and another one was
\* admitted and paid afterwards
C21_Witness ==
  /\ Len(monitoredTxids) >= 2
  /\ \E k \in DOMAIN monitoredTxids :
       pendingPayments[monitoredTxids[k]].payment_status = "Pending"
  /\ \E k \in DOMAIN monitoredTxids :
       pendingPayments[monitoredTxids[k]].payment_status = "Received"

\* C22: add_txid_for_monitoring succeeds only when the caller's key equals the
\* bridge_contract_pubkey stored in the oracle state (otherwise
\* NotBridgeContractAddress) and the txid is not longer than MAX_TXID_LENGTH
\* (otherwise InvalidTxid); on success the txid is in monitored_txids and its
\* PendingPayment holds the txid, the expected amount and the status Pending;
\* on failure monitored_txids is unchanged.
C22_AddTxid ==
  [][\A caller \in Callers, txid \in MonitoredTxidInputs :
       AddTxidForMonitoring(caller, txid) =>
         /\ (result' = "Ok") <=>
              (caller = bridgeContractPubkey /\ Len(txid) <= MAX_TXID_LENGTH)
         /\ (caller # bridgeContractPubkey /\ Len(txid) <= MAX_TXID_LENGTH) =>
              result' = "NotBridgeContractAddress"
         /\ (caller = bridgeContractPubkey /\ Len(txid) > MAX_TXID_LENGTH) =>
              result' = "InvalidTxid"
         /\ result' \in {"Ok", "NotBridgeContractAddress", "InvalidTxid"}
         /\ result' = "Ok" =>
              /\ \E k \in DOMAIN monitoredTxids' : monitoredTxids'[k] = txid
              /\ pendingPayments'[txid] =
                   PendingPayment(txid,
                     COST_IN_LAMPORTS_OF_ADDING_PASTEL_TXID_FOR_MONITORING, "Pending")
         /\ result' # "Ok" => monitoredTxids' = monitoredTxids]_vars

\* the bridge contract key was changed, txids were admitted and a caller that
\* is not the bridge contract was refused
C22_Witness ==
  /\ bridgeContractPubkey = "user"
  /\ result = "NotBridgeContractAddress"
  /\ Len(monitoredTxids) = 2
  /\ \E k \in DOMAIN monitoredTxids :
       pendingPayments[monitoredTxids[k]].payment_status = "Pending"

\* C23: set_bridge_contract and withdraw_funds succeed only when invoked by
\* the stored admin key; invoked by any other signer they fail with
\* UnauthorizedWithdrawalAccount and leave admin_pubkey, bridge_contract_pubkey
\* and the reward-pool and fee-receiving balances unchanged; the admin key of
\* an initialized oracle state never changes.
C23_AdminOnly ==
  [][/\ \A signer \in Callers, bridge_contract_pubkey \in Callers :
          SetBridgeContract(signer, bridge_contract_pubkey) =>
            /\ result' = "Ok" => signer = adminPubkey
            /\ signer # adminPubkey =>
                 /\ result' = "UnauthorizedWithdrawalAccount"
                 /\ UNCHANGED <<adminPubkey, bridgeContractPubkey,
                                rewardPoolBalance, feeReceivingBalance>>
     /\ \A signer \in Callers, reward_pool_amount \in WithdrawAmountInputs,
           fee_receiving_amount \in WithdrawAmountInputs :
          WithdrawFunds(signer, reward_pool_amount, fee_receiving_amount) =>
            /\ result' = "Ok" => signer = adminPubkey
            /\ signer # adminPubkey =>
                 /\ result' = "UnauthorizedWithdrawalAccount"
                 /\ UNCHANGED <<adminPubkey, bridgeContractPubkey,
                                rewardPoolBalance, feeReceivingBalance, adminBalance>>
     /\ isInitialized => adminPubkey' = adminPubkey]_vars

\* the admin has set the bridge contract and withdrawn funds, and another
\* signer has just been refused
C23_Witness ==
  /\ isInitialized
  /\ result = "UnauthorizedWithdrawalAccount"
  /\ bridgeContractPubkey = adminPubkey
  /\ adminBalance > 0
  /\ rewardPoolBalance > 0

\* C24: initialization happens at most once: initialize on an initialized
\* oracle state and initialize_pdas on initialized PDAs fail with
\* AccountAlreadyInitialized and leave is_initialized true, admin_pubkey
\* unchanged and the contributors, reports, submission counts, consensus data
\* and monitored txids unchanged.
C24_InitializeOnce ==
  [][/\ \A user \in Callers :
          (isInitialized /\ Initialize(user)) =>
            /\ result' = "AccountAlreadyInitialized"
            /\ isInitialized'
            /\ adminPubkey' = adminPubkey
            /\ UNCHANGED <<reportVars, monitoredTxids>>
     /\ (pdasInitialized /\ InitializePdas) =>
          /\ result' = "AccountAlreadyInitialized"
          /\ isInitialized' = isInitialized
          /\ adminPubkey' = adminPubkey
          /\ UNCHANGED <<reportVars, monitoredTxids>>
     /\ isInitialized => (isInitialized' /\ adminPubkey' = adminPubkey)
     /\ pdasInitialized => pdasInitialized']_vars

\* a second initialization was refused while every collection held data
C24_Witness ==
  /\ result = "AccountAlreadyInitialized"
  /\ isInitialized
  /\ pdasInitialized
  /\ contributors # <<>>
  /\ tempReports # <<>>
  /\ submissionCounts # <<>>
  /\ consensusData # <<>>
  /\ monitoredTxids # <<>>

C28_AccurateNeverBanned ==
  \A k \in DOMAIN contributors :
    contributors[k].consensus_failures = 0 =>
      /\ contributors[k].ban_expiry = 0
      /\ ~calculate_is_banned(contributors[k], now)
      /\ \A txid \in TxidInputs, txid_status \in StatusInputs,
            pastel_ticket_type \in TicketInputs, hash \in HashInputs :
           submission_error(CurrentAccounts, contributors[k].reward_address, txid,
                            txid_status, pastel_ticket_type, hash, now)
             # "ContributorBanned"

\* a contributor has had two reports scored, both accurate, while another
\* contributor is banned
C28_Witness ==
  \E k \in DOMAIN contributors, j \in DOMAIN contributors :
    /\ contributors[k].consensus_failures = 0
    /\ contributors[k].accurate_reports_count >= 2
    /\ contributors[j].consensus_failures > 0
    /\ contributors[j].ban_expiry > now

\* C29: finalization is total: when a stored report of the txid being
\* finalized belongs to a contributor that is no longer in the registry, only
\* that report's scoring update is skipped: the submission that reaches the
\* quorum returns success, the contributor of every other report is scored,
\* no record appears for the missing contributor, and the cleanup for the txid
\* runs.
C29_FinalizationTotal ==
  [][\A address \in Addresses, txid \in Txids, txid_status \in StatusInputs :
       ( /\ finalizations'[txid] # finalizations[txid]
         /\ HasOrphanReport(contributors, commonReports, tempReports, txid)
         /\ SubmitDataReport(address, txid, txid_status, "Nft", HashA) ) =>
         LET stored == store_report(CurrentAccounts, address, txid, txid_status,
                                    "Nft", HashA, now)
             reports == ReportsOf(stored.commonReports, stored.tempReports, txid)
         IN /\ result' = "Ok"
            /\ NoReportsOf(commonReports', tempReports', txid)
            /\ \A k \in DOMAIN contributors :
                 LET c == contributors[k]
                     mine(r) == r.contributor_reward_address = c.reward_address
                     n == CountIf(reports, mine)
                     k2 == FindContributor(contributors', c.reward_address)
                 IN IF k2 = 0
                      THEN n > 0 /\ c.consensus_failures + n >= PERMANENT_BAN_THRESHOLD
                      ELSE contributors'[k2].total_reports_submitted =
                             c.total_reports_submitted + n
            /\ IsRegistered(contributors, address) /\ (\E j \in DOMAIN reports :
                 reports[j].contributor_reward_address = address)
            /\ \A j \in DOMAIN reports :
                 ~IsRegistered(contributors, reports[j].contributor_reward_address) =>
                   ~IsRegistered(contributors', reports[j].contributor_reward_address)]_vars

\* a txid was finalized while a report of an evicted contributor was stored
\* for it: the submission succeeded, the submitting contributor was scored
\* and the txid's reports are gone
C29_Witness ==
  /\ scoringSkipped
  /\ result = "Ok"
  /\ finalizations[TxidX] = 1
  /\ permanentlyBanned # {}
  /\ NoReportsOf(commonReports, tempReports, TxidX)
  /\ \E k \in DOMAIN contributors :
       /\ contributors[k].total_reports_submitted = 1
       /\ contributors[k].reward_address \notin permanentlyBanned

\* C30: only post-consensus cleanup removes data: a step that decreases the
\* number of registered contributors, of TempStatusReports, of
\* AggregatedConsensusData entries or of SubmissionCount entries is a
\* submit_report that reaches finalization, and the contributors it removes
\* are exactly those whose ban_expiry, after the scoring of that finalization,
\* is the permanent sentinel: a temporarily banned or unbanned contributor
\* stays in the registry.
C30_OnlyCleanupRemoves ==
  [][/\ ( \/ Len(contributors') < Len(contributors)
          \/ Len(tempReports') < Len(tempReports)
          \/ Len(consensusData') < Len(consensusData)
          \/ Len(submissionCounts') < Len(submissionCounts)
          \/ \E k \in DOMAIN contributors :
               ~IsRegistered(contributors', contributors[k].reward_address) )
          => /\ result' = "Ok"
             /\ \E t \in Txids :
                  /\ finalizations'[t] = finalizations[t] + 1
                  /\ accepted'[t] = accepted[t] + 1
     /\ \A address \in Addresses, txid \in Txids, txid_status \in StatusInputs,
           pastel_ticket_type \in TicketInputs, hash \in HashInputs :
          ( /\ finalizations'[txid] # finalizations[txid]
            /\ SubmitDataReport(address, txid, txid_status, pastel_ticket_type, hash) ) =>
            LET stored == store_report(CurrentAccounts, address, txid, txid_status,
                                       pastel_ticket_type, hash, now)
                consensus ==
                  compute_consensus(get_aggregated_data(stored.consensusData, txid))
                scored == ScoreReports(stored.contributors, stored.commonReports,
                                       stored.tempReports, txid, consensus, now)
            IN \A k \in DOMAIN scored :
                 IsRegistered(contributors', scored[k].reward_address)
                   <=> scored[k].ban_expiry # PERMANENT_BAN_SENTINEL]_vars

\* a finalization has evicted a permanently banned contributor while a
\* temporarily banned contributor stayed in the registry
C30_Witness ==
  /\ permanentlyBanned # {}
  /\ \E k \in DOMAIN contributors :
       /\ contributors[k].reward_address \notin permanentlyBanned
       /\ contributors[k].consensus_failures > 0
       /\ contributors[k].ban_expiry # 0
       /\ contributors[k].ban_expiry # PERMANENT_BAN_SENTINEL

\* C31: contributor records change only through scoring at finalization: a
\* step that changes or removes the record of a registered contributor is an
\* accepted submit_report that finalizes a txid; an accepted submit_report
\* below the quorum leaves the registry as it is; and a finalizing
\* submit_report leaves the record of every contributor without a report for
\* the finalized txid unchanged and in the registry.
C31_OnlyScoringChanges ==
  [][/\ ( \E k \in DOMAIN contributors :
            LET k2 == FindContributor(contributors', contributors[k].reward_address)
            IN k2 = 0 \/ contributors'[k2] # contributors[k] )
          => /\ result' = "Ok"
             /\ \E t \in Txids :
                  /\ finalizations'[t] = finalizations[t] + 1
                  /\ accepted'[t] = accepted[t] + 1
     /\ ( /\ \E t \in Txids : accepted'[t] = accepted[t] + 1
          /\ finalizations' = finalizations ) => contributors' = contributors
     /\ \A address \in Addresses, txid \in Txids, txid_status \in StatusInputs,
           pastel_ticket_type \in TicketInputs, hash \in HashInputs :
          ( /\ finalizations'[txid] # finalizations[txid]
            /\ SubmitDataReport(address, txid, txid_status, pastel_ticket_type, hash) ) =>
            LET stored == store_report(CurrentAccounts, address, txid, txid_status,
                                       pastel_ticket_type, hash, now)
                reports == ReportsOf(stored.commonReports, stored.tempReports, txid)
            IN \A k \in DOMAIN contributors :
                 LET c == contributors[k]
                     mine(r) == r.contributor_reward_address = c.reward_address
                     k2 == FindContributor(contributors', c.reward_address)
                 IN CountIf(reports, mine) = 0 =>
                      k2 # 0 /\ contributors'[k2] = c]_vars

\* a txid was finalized and its reporter scored while another contributor,
\* whose only report is in flight for the other txid, kept its initial record
C31_Witness ==
  \E txid \in Txids, k1, k2 \in DOMAIN contributors :
    /\ finalizations[txid] = 1
    /\ contributors[k1].total_reports_submitted = MIN_NUMBER_OF_ORACLES
    /\ \E t \in 0..MaxTime :
         contributors[k2] = NewContributor(contributors[k2].reward_address, t)
    /\ \E j \in DOMAIN tempReports :
         /\ tempReports[j].contributor_reward_address = contributors[k2].reward_address
         /\ ReportTxid(commonReports, tempReports[j]) # txid

\* C32: each update_contributor(contributor, now, is_accurate) increments
\* total_reports_submitted by 1 and sets last_active_timestamp to now; an
\* accurate report increments accurate_reports_count and current_streak by 1
\* and leaves consensus_failures alone; an inaccurate report resets
\* current_streak to 0, increments consensus_failures by 1 and leaves
\* accurate_reports_count alone; and in every reachable state
\* current_streak <= accurate_reports_count <= total_reports_submitted.
C32_Counters ==
  /\ [](\A k \in DOMAIN contributors :
          /\ 0 <= contributors[k].current_streak
          /\ contributors[k].current_streak <= contributors[k].accurate_reports_count
          /\ contributors[k].accurate_reports_count
               <= contributors[k].total_reports_submitted)
  /\ [][\A address \in Addresses, is_accurate \in BOOLEAN :
          ScoreContributor(address, is_accurate) =>
            LET c == ContributorOf(contributors, address)
                d == update_contributor(c, now, is_accurate)
                k2 == FindContributor(contributors', address)
            IN /\ d.total_reports_submitted = c.total_reports_submitted + 1
               /\ d.last_active_timestamp = now
               /\ is_accurate =>
                    /\ d.accurate_reports_count = c.accurate_reports_count + 1
                    /\ d.current_streak = c.current_streak + 1
                    /\ d.consensus_failures = c.consensus_failures
               /\ ~is_accurate =>
                    /\ d.accurate_reports_count = c.accurate_reports_count
                    /\ d.current_streak = 0
                    /\ d.consensus_failures = c.consensus_failures + 1
               /\ IF k2 = 0
                    THEN ~is_accurate /\ d.ban_expiry = PERMANENT_BAN_SENTINEL
                    ELSE contributors'[k2] = d]_vars

\* a contributor was scored accurate, inaccurate and accurate again after the
\* clock moved: its streak restarted below its accurate count, which is below
\* its total
C32_Witness ==
  \E k \in DOMAIN contributors :
    /\ contributors[k].current_streak = 1
    /\ contributors[k].accurate_reports_count = 3
    /\ contributors[k].total_reports_submitted = 4
    /\ contributors[k].consensus_failures = 1
    /\ contributors[k].last_active_timestamp = MaxTime

\* C33: after every scoring update reliability_score is accurate_reports_count
\* divided by total_reports_submitted on the fixed-point scale, by integer
\* division with total_reports_submitted >= 1: a contributor whose reports
\* were all accurate has the maximum reliability and one with no accurate
\* report has reliability 0.
C33_Reliability ==
  /\ [](\A k \in DOMAIN contributors :
          LET c == contributors[k]
          IN c.total_reports_submitted >= 1 =>
               /\ c.reliability_score =
                    (c.accurate_reports_count * MAX_SCORE) \div c.total_reports_submitted
               /\ c.accurate_reports_count = c.total_reports_submitted =>
                    c.reliability_score = MAX_SCORE
               /\ c.accurate_reports_count = 0 => c.reliability_score = 0)
  /\ [][\A address \in Addresses, is_accurate \in BOOLEAN :
          ScoreContributor(address, is_accurate) =>
            LET d == update_contributor(ContributorOf(contributors, address),
                                        now, is_accurate)
            IN /\ d.total_reports_submitted >= 1
               /\ d.reliability_score =
                    (d.accurate_reports_count * MAX_SCORE) \div d.total_reports_submitted]_vars

\* a contributor with two accurate reports out of three: the quotient is
\* truncated, so three times the reliability is below twice the maximum
C33_Witness ==
  \E k \in DOMAIN contributors :
    /\ contributors[k].total_reports_submitted = 3
    /\ contributors[k].accurate_reports_count = 2
    /\ contributors[k].reliability_score * 3 < 2 * MAX_SCORE
    /\ contributors[k].reliability_score * 3 > 2 * MAX_SCORE - 3

\* C34: every report counted toward a txid's quorum is judged: when a
\* submit_report finalizes a txid, the reports stored for the txid, which are
\* the ones scored, are exactly as many as the txid's submission count,
\* MIN_NUMBER_OF_ORACLES; and a step that is not the txid's finalization
\* never drops a report of the txid while the txid's SubmissionCount or
\* AggregatedConsensusData stays.
C34_CountedReportsJudged ==
  [][/\ \A address \in Addresses, txid \in Txids, txid_status \in StatusInputs,
           pastel_ticket_type \in TicketInputs, hash \in HashInputs :
          ( /\ finalizations'[txid] # finalizations[txid]
            /\ SubmitDataReport(address, txid, txid_status, pastel_ticket_type, hash) ) =>
            LET stored == store_report(CurrentAccounts, address, txid, txid_status,
                                       pastel_ticket_type, hash, now)
                reports == ReportsOf(stored.commonReports, stored.tempReports, txid)
            IN /\ Len(reports) = SubmissionCountOf(stored.submissionCounts, txid)
               /\ Len(reports) = MIN_NUMBER_OF_ORACLES
     /\ \A txid \in Txids :
          ( /\ finalizations'[txid] = finalizations[txid]
            /\ Len(ReportsOf(commonReports', tempReports', txid))
                 < Len(ReportsOf(commonReports, tempReports, txid)) ) =>
            /\ CountOfNext(txid) = 0
            /\ ~HasConsensusData(consensusData', txid)]_vars

\* C35: common-data references stay valid: in every reachable state each
\* TempStatusReport's common_data_ref is an index of the CommonReportData
\* list, and the list holds at most one entry per (txid, ticket type); the
\* report an accepted submission stores points to the entry that carries the
\* txid and the ticket type of the submission, and afterwards no step moves
\* or changes an entry of the list or a stored report.
C35_CommonDataRefs ==
  /\ [](/\ \A j \in DOMAIN tempReports :
             tempReports[j].common_data_ref \in DOMAIN commonReports
        /\ \A i, k \in DOMAIN commonReports :
             ( /\ commonReports[i].txid = commonReports[k].txid
               /\ commonReports[i].pastel_ticket_type
                    = commonReports[k].pastel_ticket_type ) => i = k)
  /\ [][/\ Len(commonReports') >= Len(commonReports)
        /\ \A i \in DOMAIN commonReports : commonReports'[i] = commonReports[i]
        /\ (accepted' = accepted) => tempReports' = tempReports
        /\ \A address \in Addresses, txid \in Txids,
              pastel_ticket_type \in CommonTicketInputs :
             ( /\ accepted'[txid] # accepted[txid]
               /\ SubmitDataReport(address, txid, MinedActivated,
                                   pastel_ticket_type, HashA) ) =>
               LET stored == store_report(CurrentAccounts, address, txid,
                                          MinedActivated, pastel_ticket_type,
                                          HashA, now)
                   r == stored.tempReports[Len(stored.tempReports)]
               IN /\ r.common_data_ref \in DOMAIN stored.commonReports
                  /\ stored.commonReports[r.common_data_ref] =
                       [txid |-> txid, pastel_ticket_type |-> pastel_ticket_type]
                  /\ commonReports' = stored.commonReports
                  /\ \A j \in DOMAIN tempReports' :
                       \E i \in DOMAIN stored.tempReports :
                         stored.tempReports[i] = tempReports'[j]]_vars

\* after a finalization and its cleanup a report is in flight whose reference
\* is not the first entry, and one txid has an entry for each ticket type
C35_Witness ==
  /\ \E t \in Txids : finalizations[t] >= 1
  /\ \E j \in DOMAIN tempReports :
       /\ tempReports[j].common_data_ref > 2
       /\ tempReports[j].common_data_ref \in DOMAIN commonReports
  /\ \E i, k \in DOMAIN commonReports :
       /\ commonReports[i].txid = commonReports[k].txid
       /\ commonReports[i].pastel_ticket_type # commonReports[k].pastel_ticket_type

\* a cleanup sweep, run by the finalization of another txid, drops a stored
\* report of txid
SweepPrunes(txid) ==
  /\ finalizations'[txid] = finalizations[txid]
  /\ Len(ReportsOf(commonReports', tempReports', txid))
       < Len(ReportsOf(commonReports, tempReports, txid))

\* C36: in every reachable state every SubmissionCount entry has
\* 1 <= count <= MIN_NUMBER_OF_ORACLES and a txid has at most one entry; and
\* while a txid is collecting (count < MIN_NUMBER_OF_ORACLES) its count is
\* the number of TempStatusReports stored for it, as long as no sweep prunes
\* a report of the txid: every step other than such a sweep keeps the two
\* equal.
C36_CountMatchesReports ==
  /\ [](/\ \A i \in DOMAIN submissionCounts :
             /\ 1 <= submissionCounts[i].count
             /\ submissionCounts[i].count <= MIN_NUMBER_OF_ORACLES
        /\ \A i, k \in DOMAIN submissionCounts :
             submissionCounts[i].txid = submissionCounts[k].txid => i = k)
  /\ [][\A txid \in Txids :
          ( /\ CountOf(txid) < MIN_NUMBER_OF_ORACLES =>
                 Len(ReportsOf(commonReports, tempReports, txid)) = CountOf(txid)
            /\ ~SweepPrunes(txid) ) =>
            ( CountOfNext(txid) < MIN_NUMBER_OF_ORACLES =>
                Len(ReportsOf(commonReports', tempReports', txid))
                  = CountOfNext(txid) )]_vars

\* a collecting txid holds two counted reports of different ages while the
\* other txid is at the ceiling after its finalization
C36_Witness ==
  \E txid, other \in Txids :
    /\ CountOf(txid) = 2
    /\ CountOf(txid) < MIN_NUMBER_OF_ORACLES
    /\ LET reports == ReportsOf(commonReports, tempReports, txid)
       IN /\ Len(reports) = 2
          /\ reports[1].timestamp # reports[2].timestamp
    /\ finalizations[other] = 1
    /\ CountOf(other) = MIN_NUMBER_OF_ORACLES

\* C37: the Finalizing state is never observable between operations: in no
\* reachable state does a txid have a submission count at or above
\* MIN_NUMBER_OF_ORACLES together with stored TempStatusReports; a failed
\* submission leaves the report accounts as they were; and an accepted
\* submission below the quorum stores, counts and aggregates its report in
\* one step (one report more, a count one higher, and an aggregate updated at
\* the same time whose weights are the weights cast so far).
C37_NoFinalizingState ==
  /\ [](\A txid \in Txids :
          CountOf(txid) >= MIN_NUMBER_OF_ORACLES =>
            NoReportsOf(commonReports, tempReports, txid))
  /\ [][/\ (result' \in SubmitErrors /\ now' = now) =>
             UNCHANGED <<reportVars, historyVars>>
        /\ \A txid \in Txids :
             ( /\ accepted'[txid] # accepted[txid]
               /\ finalizations'[txid] = finalizations[txid] ) =>
               /\ result' = "Ok"
               /\ Len(ReportsOf(commonReports', tempReports', txid))
                    = Len(ReportsOf(commonReports, tempReports, txid)) + 1
               /\ CountOfNext(txid) = CountOf(txid) + 1
               /\ CountOfNext(txid) < MIN_NUMBER_OF_ORACLES
               /\ HasConsensusData(consensusData', txid)
               /\ LET e == get_aggregated_data(consensusData', txid)
                  IN /\ e.last_updated = now
                     /\ SumStatusWeights(e) = castWeight'[txid]
        /\ \A txid \in Txids :
             finalizations'[txid] # finalizations[txid] =>
               /\ accepted'[txid] = accepted[txid] + 1
               /\ CountOfNext(txid) = CountOf(txid) + 1
               /\ NoReportsOf(commonReports', tempReports', txid)]_vars

\* a report was refused at the ceiling: the txid was finalized, its count is
\* at the quorum, its aggregate is still stored and none of its reports is
C37_Witness ==
  /\ result = "EnoughReportsSubmittedForTxid"
  /\ finalizations[TxidX] >= 1
  /\ CountOf(TxidX) >= MIN_NUMBER_OF_ORACLES
  /\ HasConsensusData(consensusData, TxidX)
  /\ NoReportsOf(commonReports, tempReports, TxidX)

\* the sum of the weights in a hash list
RECURSIVE SumHashWeights(_)
SumHashWeights(hash_weights) ==
  IF hash_weights = <<>> THEN 0
  ELSE Head(hash_weights).weight + SumHashWeights(Tail(hash_weights))

\* C38: for every txid with an AggregatedConsensusData record the weights in
\* its hash list sum to the sum of its status_weights, each hash prefix
\* appears in the list at most once (two entries never hold the same 6
\* characters), and the list has no more entries than reports were accepted
\* for the txid: no more than the txid's submission count.
C38_HashWeights ==
  \A i \in DOMAIN consensusData :
    LET e == consensusData[i]
    IN /\ SumHashWeights(e.hash_weights) = SumStatusWeights(e)
       /\ \A a, b \in DOMAIN e.hash_weights :
            e.hash_weights[a].hash = e.hash_weights[b].hash => a = b
       /\ Len(e.hash_weights) >= 1
       /\ Len(e.hash_weights) <= accepted[e.txid]
       /\ Len(e.hash_weights) <= CountOf(e.txid)

\* a finalized txid's record holds two hash prefixes, each with the weight of
\* one report
C38_Witness ==
  \E i \in DOMAIN consensusData :
    LET e == consensusData[i]
    IN /\ Len(e.hash_weights) = 2
       /\ e.hash_weights[1].hash = HashB
       /\ e.hash_weights[2].hash = HashA
       /\ e.hash_weights[1].weight > 0
       /\ e.hash_weights[2].weight > 0
       /\ finalizations[e.txid] >= 1

\* the lamports of the contributors' accounts 1..n
RECURSIVE SumContributorBalances(_, _)
SumContributorBalances(balances, n) ==
  IF n = 0 THEN 0 ELSE balances[n] + SumContributorBalances(balances, n - 1)

\* the lamports of all the accounts a reward request has in its context
RewardLamports(pool, balances, state_balance) ==
  pool + SumContributorBalances(balances, NumContributors) + state_balance

\* C39: request_reward never overdraws the reward pool: the pool balance is
\* never negative; a request of an eligible contributor while the pool holds
\* less than BASE_REWARD_AMOUNT_IN_LAMPORTS fails with InsufficientFunds and
\* moves nothing; and every request, accepted or refused, first or repeated,
\* leaves the pool at or above 0 and conserves the lamports of the pool, the
\* contributors and the oracle state and leaves the other accounts alone.
C39_NoOverdraw ==
  /\ [](rewardPoolBalance >= 0)
  /\ [][\A address \in Addresses :
          RequestReward(address) =>
            /\ ( /\ IsRegistered(contributors, address)
                 /\ ContributorOf(contributors, address).is_eligible_for_rewards
                 /\ rewardPoolBalance < BASE_REWARD_AMOUNT_IN_LAMPORTS ) =>
                 /\ result' = "InsufficientFunds"
                 /\ UNCHANGED <<balanceVars, contributors>>
            /\ result' # "Ok" => UNCHANGED balanceVars
            /\ rewardPoolBalance' >= 0
            /\ rewardPoolBalance' <= rewardPoolBalance
            /\ RewardLamports(rewardPoolBalance', contributorBalance',
                              oracleContractStateBalance')
                 = RewardLamports(rewardPoolBalance, contributorBalance,
                                  oracleContractStateBalance)
            /\ UNCHANGED <<feeReceivingBalance, adminBalance>>]_vars

\* an eligible contributor was paid one reward, which left the pool with
\* half a reward, and its next request was refused for insufficient funds
C39_Witness ==
  \E address \in Addresses :
    /\ result = "InsufficientFunds"
    /\ IsRegistered(contributors, address)
    /\ ContributorOf(contributors, address).is_eligible_for_rewards
    /\ contributorBalance[address] = BASE_REWARD_AMOUNT_IN_LAMPORTS
    /\ rewardPoolBalance > 0
    /\ rewardPoolBalance < BASE_REWARD_AMOUNT_IN_LAMPORTS

====
